---- MODULE Spec2Model ----
(***************************************************************************)
(* A model of the MDOCX container codec (package mdocx): the wire framer,  *)
(* the compression envelope, the limits policy, the document validator and *)
(* the Encode / Decode orchestrators.                                      *)
(*                                                                         *)
(* Representation.                                                         *)
(*  - uint32 / uint64 quantities are kept as their little-endian byte     *)
(*    tuples (4 or 8 bytes), exactly as they travel on the wire, and are   *)
(*    compared bytewise; the default ceilings 1<<32 and 2<<30 are exact.   *)
(*  - the fixed header and the section headers are concrete byte tuples.   *)
(*  - bulk byte strings (file contents, media data, metadata JSON, section *)
(*    payloads) are records that carry their length and what the external  *)
(*    libraries (encoding/gob, encoding/json, archive/zip, zstd, lz4,      *)
(*    brotli, crypto/sha256) observe of them.                              *)
(*  - a byte stream is the sequence of the segments that Decode's own      *)
(*    length fields cut it into; a stream that ends early ends inside a    *)
(*    segment.                                                             *)
(*  - Go's nil and empty slices/maps are identified.                       *)
(***************************************************************************)
EXTENDS Integers, Sequences, FiniteSets, TLC

VARIABLES
    doc,      \* the caller's *Document handed to Encode ("nil" or a record)
    doc0,     \* ghost: the Document as it was when Encode was called
    first,    \* ghost: the outcome of an earlier run of the same calls
    wopts,    \* Encode's writeConfig after the options were applied
    epc,      \* Encode's position
    enc,      \* Encode's locals (metadata bytes, flags, payloads)
    w,        \* the io.Writer given to Encode
    eerr,     \* the error Encode returned ("pending" while it runs)
    stream,   \* the bytes behind the io.Reader given to Decode
    tampers,  \* ghost: which fields of an encoded file were overwritten
    ropts,    \* Decode's readConfig after the options were applied
    dpc,      \* Decode's position
    rpos,     \* the reader's position: index of the next unread segment
    dec,      \* Decode's locals (headers, payloads, bundles)
    dres,     \* the *Document Decode returned ("nil" or a record)
    derr,     \* the error Decode returned ("pending" while it runs)
    log       \* ghost: Decode's limit checks, allocations, reads and codec calls

vars == <<doc, doc0, first, wopts, epc, enc, w, eerr, stream, tampers, ropts, dpc,
          rpos, dec, dres, derr, log>>

----------------------------------------------------------------------------
(* Bounds of the model.                                                    *)

MaxFiles == 2
MaxItems == 1
MaxTampers == 2

----------------------------------------------------------------------------
(* Program constants (types.go).                                           *)

VersionV1 == 1
fixedHeaderSizeV1 == 32
sectionHeaderSize == 16
HeaderFlagMetadataJSON == 1
SectionMarkdown == 1
SectionMedia == 2
CompNone == 0
CompZIP == 1
CompZSTD == 2
CompLZ4 == 3
CompBR == 4
sectionFlagCompressionMask == 15
sectionFlagHasUncompressedLen == 16

\* 'M','D','O','C','X','\r','\n',0x1A
Magic == <<77, 68, 79, 67, 88, 13, 10, 26>>

\* The sentinel errors of errors.go, and the errors of other packages that
\* Encode and Decode hand on unwrapped.
ErrInvalidMagic == "ErrInvalidMagic"
ErrUnsupportedVersion == "ErrUnsupportedVersion"
ErrInvalidHeader == "ErrInvalidHeader"
ErrInvalidSection == "ErrInvalidSection"
ErrInvalidPayload == "ErrInvalidPayload"
ErrLimitExceeded == "ErrLimitExceeded"
ErrValidation == "ErrValidation"
Sentinels == {ErrInvalidMagic, ErrUnsupportedVersion, ErrInvalidHeader,
              ErrInvalidSection, ErrInvalidPayload, ErrLimitExceeded,
              ErrValidation}
ioEOF == "io.EOF"
ioErrUnexpectedEOF == "io.ErrUnexpectedEOF"
ioErrClosedPipe == "io.ErrClosedPipe"
codecError == "codec library error"
gobError == "gob: decode error"
jsonError == "json: error"
NoError == "nil"

----------------------------------------------------------------------------
(* Fixed-width unsigned integers as little-endian byte tuples.             *)

\* binary.LittleEndian.PutUint16/32/64: the w low bytes of n.
RECURSIVE PutUint(_, _)
PutUint(n, width) ==
    IF width = 0 THEN <<>> ELSE <<n % 256>> \o PutUint(n \div 256, width - 1)

\* binary.LittleEndian.Uint16.
Uint16(b) == b[1] + 256 * b[2]

\* a > b for two little-endian tuples of the same width.
RECURSIVE WideGt(_, _)
WideGt(a, b) ==
    IF Len(a) = 0 THEN FALSE
    ELSE LET n == Len(a) IN
         IF a[n] # b[n] THEN a[n] > b[n]
         ELSE WideGt(SubSeq(a, 1, n - 1), SubSeq(b, 1, n - 1))

IsZero(a) == \A i \in 1..Len(a) : a[i] = 0

\* uint64(x) of a narrower unsigned value: zero extension.
Widen(a, width) == a \o [i \in 1..(width - Len(a)) |-> 0]

\* x << 1 on a byte tuple (the bits shifted out are lost, as in Go).
RECURSIVE ShlOne(_, _)
ShlOne(a, carry) ==
    IF a = <<>> THEN <<>>
    ELSE <<(2 * a[1] + carry) % 256>> \o ShlOne(Tail(a), (2 * a[1] + carry) \div 256)

\* x << k.
RECURSIVE Shl(_, _)
Shl(a, k) == IF k = 0 THEN a ELSE Shl(ShlOne(a, 0), k - 1)

\* len(x) as a uint64, for a length the model holds as a number.
U64(n) == PutUint(n, 8)
U32(n) == PutUint(n, 4)

\* Bitwise operators on uint16 values.
RECURSIVE BitAnd(_, _)
BitAnd(x, y) ==
    IF x = 0 \/ y = 0 THEN 0
    ELSE (x % 2) * (y % 2) + 2 * BitAnd(x \div 2, y \div 2)

RECURSIVE BitOr(_, _)
BitOr(x, y) ==
    IF x = 0 THEN y ELSE IF y = 0 THEN x
    ELSE (IF x % 2 = 1 \/ y % 2 = 1 THEN 1 ELSE 0) + 2 * BitOr(x \div 2, y \div 2)

RECURSIVE BitXor(_, _)
BitXor(x, y) ==
    IF x = 0 THEN y ELSE IF y = 0 THEN x
    ELSE (IF x % 2 # y % 2 THEN 1 ELSE 0) + 2 * BitXor(x \div 2, y \div 2)

----------------------------------------------------------------------------
(* Limits policy.                                                          *)

defaultLimits ==
    [ MaxMetadataLen            |-> Shl(U32(1), 20),
      MaxMarkdownSectionLen     |-> Shl(U64(1), 30),
      MaxMediaSectionLen        |-> Shl(U64(1), 32),
      MaxMarkdownUncompressed   |-> Shl(U64(256), 20),
      MaxMediaUncompressed      |-> Shl(U64(2), 30),
      MaxMarkdownFiles          |-> 10000,
      MaxMediaItems             |-> 10000,
      MaxSingleMarkdownFileSize |-> Shl(U64(256), 20),
      MaxSingleMediaSize        |-> Shl(U64(512), 20) ]

\* The zero Limits value, Limits{}.
zeroLimits ==
    [ MaxMetadataLen            |-> U32(0),
      MaxMarkdownSectionLen     |-> U64(0),
      MaxMediaSectionLen        |-> U64(0),
      MaxMarkdownUncompressed   |-> U64(0),
      MaxMediaUncompressed      |-> U64(0),
      MaxMarkdownFiles          |-> 0,
      MaxMediaItems             |-> 0,
      MaxSingleMarkdownFileSize |-> U64(0),
      MaxSingleMediaSize        |-> U64(0) ]

\* withDefaults leaving a zero MaxMediaItems as it is.
withDefaultsButItems(l) ==
    LET d == defaultLimits IN
    [ MaxMetadataLen            |-> IF IsZero(l.MaxMetadataLen) THEN d.MaxMetadataLen ELSE l.MaxMetadataLen,
      MaxMarkdownSectionLen     |-> IF IsZero(l.MaxMarkdownSectionLen) THEN d.MaxMarkdownSectionLen ELSE l.MaxMarkdownSectionLen,
      MaxMediaSectionLen        |-> IF IsZero(l.MaxMediaSectionLen) THEN d.MaxMediaSectionLen ELSE l.MaxMediaSectionLen,
      MaxMarkdownUncompressed   |-> IF IsZero(l.MaxMarkdownUncompressed) THEN d.MaxMarkdownUncompressed ELSE l.MaxMarkdownUncompressed,
      MaxMediaUncompressed      |-> IF IsZero(l.MaxMediaUncompressed) THEN d.MaxMediaUncompressed ELSE l.MaxMediaUncompressed,
      MaxMarkdownFiles          |-> IF l.MaxMarkdownFiles = 0 THEN d.MaxMarkdownFiles ELSE l.MaxMarkdownFiles,
      MaxMediaItems             |-> l.MaxMediaItems,
      MaxSingleMarkdownFileSize |-> IF IsZero(l.MaxSingleMarkdownFileSize) THEN d.MaxSingleMarkdownFileSize ELSE l.MaxSingleMarkdownFileSize,
      MaxSingleMediaSize        |-> IF IsZero(l.MaxSingleMediaSize) THEN d.MaxSingleMediaSize ELSE l.MaxSingleMediaSize ]

withDefaults(l) ==
    LET d == defaultLimits IN
    [ MaxMetadataLen            |-> IF IsZero(l.MaxMetadataLen) THEN d.MaxMetadataLen ELSE l.MaxMetadataLen,
      MaxMarkdownSectionLen     |-> IF IsZero(l.MaxMarkdownSectionLen) THEN d.MaxMarkdownSectionLen ELSE l.MaxMarkdownSectionLen,
      MaxMediaSectionLen        |-> IF IsZero(l.MaxMediaSectionLen) THEN d.MaxMediaSectionLen ELSE l.MaxMediaSectionLen,
      MaxMarkdownUncompressed   |-> IF IsZero(l.MaxMarkdownUncompressed) THEN d.MaxMarkdownUncompressed ELSE l.MaxMarkdownUncompressed,
      MaxMediaUncompressed      |-> IF IsZero(l.MaxMediaUncompressed) THEN d.MaxMediaUncompressed ELSE l.MaxMediaUncompressed,
      MaxMarkdownFiles          |-> IF l.MaxMarkdownFiles = 0 THEN d.MaxMarkdownFiles ELSE l.MaxMarkdownFiles,
      MaxMediaItems             |-> IF l.MaxMediaItems = 0 THEN d.MaxMediaItems ELSE l.MaxMediaItems,
      MaxSingleMarkdownFileSize |-> IF IsZero(l.MaxSingleMarkdownFileSize) THEN d.MaxSingleMarkdownFileSize ELSE l.MaxSingleMarkdownFileSize,
      MaxSingleMediaSize        |-> IF IsZero(l.MaxSingleMediaSize) THEN d.MaxSingleMediaSize ELSE l.MaxSingleMediaSize ]

----------------------------------------------------------------------------
(* Strings are tuples of one-character strings, so that the path rules can *)
(* look inside them.                                                       *)

IsSpace(c) == c \in {" ", "\t", "\n", "\r"}

\* strings.TrimSpace(s) == ""
TrimSpaceIsEmpty(s) == \A i \in 1..Len(s) : IsSpace(s[i])

\* strings.HasPrefix(s, prefix)
HasPrefix(s, prefix) ==
    Len(s) >= Len(prefix) /\ SubSeq(s, 1, Len(prefix)) = prefix

\* strings.Contains(s, c) for a single character c
Contains(s, c) == \E i \in 1..Len(s) : s[i] = c

\* The elements of p between its slashes (empty elements included).
RECURSIVE SplitSlash(_, _)
SplitSlash(p, cur) ==
    IF p = <<>> THEN <<cur>>
    ELSE IF p[1] = "/" THEN <<cur>> \o SplitSlash(Tail(p), <<>>)
    ELSE SplitSlash(Tail(p), Append(cur, p[1]))

RECURSIVE JoinSlash(_)
JoinSlash(elems) ==
    IF elems = <<>> THEN <<>>
    ELSE IF Len(elems) = 1 THEN elems[1]
    ELSE elems[1] \o <<"/">> \o JoinSlash(Tail(elems))

\* path.Clean's pass over the elements: empty and "." elements are dropped,
\* ".." removes the element before it, or stays when there is none to remove
\* (and is dropped at the root of a rooted path).
RECURSIVE CleanElems(_, _, _)
CleanElems(elems, kept, rooted) ==
    IF elems = <<>> THEN kept
    ELSE LET e == elems[1] IN
         IF e = <<>> \/ e = <<".">> THEN CleanElems(Tail(elems), kept, rooted)
         ELSE IF e = <<".", ".">> THEN
              IF kept # <<>> /\ kept[Len(kept)] # <<".", ".">>
              THEN CleanElems(Tail(elems), SubSeq(kept, 1, Len(kept) - 1), rooted)
              ELSE IF rooted THEN CleanElems(Tail(elems), kept, rooted)
              ELSE CleanElems(Tail(elems), Append(kept, e), rooted)
         ELSE CleanElems(Tail(elems), Append(kept, e), rooted)

\* path.Clean (package path of the Go library).
pathClean(p) ==
    IF p = <<>> THEN <<".">>
    ELSE LET rooted == p[1] = "/"
             body   == JoinSlash(CleanElems(SplitSlash(p, <<>>), <<>>, rooted))
             out    == IF rooted THEN <<"/">> \o body ELSE body
         IN IF out = <<>> THEN <<".">> ELSE out

\* validateContainerPath without its last test.
validateContainerPathNoEscape(p) ==
    IF TrimSpaceIsEmpty(p) THEN "path is empty"
    ELSE IF HasPrefix(p, <<"/">>) THEN "path must not be absolute"
    ELSE IF Contains(p, "\\") THEN "path must use forward slashes"
    ELSE LET clean == pathClean(p) IN
         IF clean # p THEN "path must be normalized"
         ELSE IF clean = <<".">> THEN "path must not be current directory"
         ELSE NoError

validateContainerPath(p) ==
    IF TrimSpaceIsEmpty(p) THEN "path is empty"
    ELSE IF HasPrefix(p, <<"/">>) THEN "path must not be absolute"
    ELSE IF Contains(p, "\\") THEN "path must use forward slashes"
    ELSE LET clean == pathClean(p) IN
         IF clean # p THEN "path must be normalized"
         ELSE IF clean = <<".">> THEN "path must not be current directory"
         ELSE IF clean = <<".", ".">> \/ HasPrefix(clean, <<".", ".", "/">>)
              THEN "path must not escape"
         ELSE NoError

----------------------------------------------------------------------------
(* The data model (types.go).  A byte string is [len, utf8, tag]: its      *)
(* length, whether it is valid UTF-8, and a tag that stands for its bytes. *)

NilDoc == [nil |-> TRUE]
NilMetadata == [nil |-> TRUE, obj |-> "", jsonLen |-> 0]

\* [32]byte{} and sha256.Sum256(data): the digest determines the data, and no
\* data hashes to the zero digest.
ZeroSHA == [zero |-> TRUE, of |-> ""]
sha256Sum(data) == [zero |-> FALSE, of |-> data.tag]

computedSHA256(m) == sha256Sum(m.Data)

utf8Valid(b) == b.utf8

\* The error validateDocument returns: its kind and which check failed.
VErr(kind, msg) == [kind |-> kind, msg |-> msg]

\* The checks of one Markdown file with the size tested before the encoding.
mdFileErrSizeFirst(files, i, limits) ==
    LET f == files[i] IN
    IF validateContainerPath(f.Path) # NoError
    THEN VErr(ErrValidation, "markdown file path")
    ELSE IF \E j \in 1..(i - 1) : files[j].Path = f.Path
    THEN VErr(ErrValidation, "duplicate markdown path")
    ELSE IF WideGt(U64(f.Content.len), limits.MaxSingleMarkdownFileSize)
    THEN VErr(ErrLimitExceeded, "markdown file too large")
    ELSE IF ~utf8Valid(f.Content)
    THEN VErr(ErrValidation, "markdown content is not valid UTF-8")
    ELSE VErr(NoError, "")

mdFileErr(files, i, limits) ==
    LET f == files[i] IN
    IF validateContainerPath(f.Path) # NoError
    THEN VErr(ErrValidation, "markdown file path")
    ELSE IF \E j \in 1..(i - 1) : files[j].Path = f.Path
    THEN VErr(ErrValidation, "duplicate markdown path")
    ELSE IF ~utf8Valid(f.Content)
    THEN VErr(ErrValidation, "markdown content is not valid UTF-8")
    ELSE IF WideGt(U64(f.Content.len), limits.MaxSingleMarkdownFileSize)
    THEN VErr(ErrLimitExceeded, "markdown file too large")
    ELSE VErr(NoError, "")

\* The checks of one Media item without the comparison of the digest.
mediaItemErrNoHash(items, i, limits, verifyHashes) ==
    LET it == items[i] IN
    IF TrimSpaceIsEmpty(it.ID)
    THEN VErr(ErrValidation, "media item has empty ID")
    ELSE IF \E j \in 1..(i - 1) : items[j].ID = it.ID
    THEN VErr(ErrValidation, "duplicate media ID")
    ELSE IF it.Path # <<>> /\ validateContainerPath(it.Path) # NoError
    THEN VErr(ErrValidation, "media item path")
    ELSE IF WideGt(U64(it.Data.len), limits.MaxSingleMediaSize)
    THEN VErr(ErrLimitExceeded, "media item too large")
    ELSE VErr(NoError, "")

mediaItemErr(items, i, limits, verifyHashes) ==
    LET it == items[i] IN
    IF TrimSpaceIsEmpty(it.ID)
    THEN VErr(ErrValidation, "media item has empty ID")
    ELSE IF \E j \in 1..(i - 1) : items[j].ID = it.ID
    THEN VErr(ErrValidation, "duplicate media ID")
    ELSE IF it.Path # <<>> /\ validateContainerPath(it.Path) # NoError
    THEN VErr(ErrValidation, "media item path")
    ELSE IF WideGt(U64(it.Data.len), limits.MaxSingleMediaSize)
    THEN VErr(ErrLimitExceeded, "media item too large")
    ELSE IF verifyHashes /\ it.SHA256 # ZeroSHA /\ computedSHA256(it) # it.SHA256
    THEN VErr(ErrValidation, "media item SHA256 mismatch")
    ELSE VErr(NoError, "")

\* The first error of a loop whose i-th iteration returns errAt[i].
RECURSIVE FirstErr(_, _)
FirstErr(errAt, i) ==
    IF i > Len(errAt) THEN VErr(NoError, "")
    ELSE IF errAt[i].kind # NoError THEN errAt[i]
    ELSE FirstErr(errAt, i + 1)

validateDocumentErr(d, limits, verifyHashes) ==
    IF d.nil THEN VErr(ErrValidation, "document is nil")
    ELSE IF d.Markdown.BundleVersion # VersionV1
    THEN VErr(ErrValidation, "Markdown.BundleVersion")
    ELSE IF Len(d.Markdown.Files) = 0
    THEN VErr(ErrValidation, "Markdown.Files must not be empty")
    ELSE IF Len(d.Markdown.Files) > limits.MaxMarkdownFiles
    THEN VErr(ErrLimitExceeded, "too many markdown files")
    ELSE IF d.Markdown.RootPath # <<>> /\ validateContainerPath(d.Markdown.RootPath) # NoError
    THEN VErr(ErrValidation, "Markdown.RootPath")
    ELSE LET files == d.Markdown.Files
             items == d.Media.Items
             fe == FirstErr([i \in 1..Len(files) |-> mdFileErr(files, i, limits)], 1)
         IN
         IF fe.kind # NoError THEN fe
         ELSE IF d.Media.BundleVersion # VersionV1
         THEN VErr(ErrValidation, "Media.BundleVersion")
         ELSE IF Len(items) > limits.MaxMediaItems
         THEN VErr(ErrLimitExceeded, "too many media items")
         ELSE FirstErr([i \in 1..Len(items) |-> mediaItemErr(items, i, limits, verifyHashes)], 1)

\* A validator that also requires every MediaRefs entry to name an item.
validateDocumentResolvingRefs(d, limits, verifyHashes) ==
    LET e == validateDocumentErr(d, limits, verifyHashes).kind IN
    IF e # NoError THEN e
    ELSE IF \E i \in 1..Len(d.Markdown.Files) :
              \E j \in 1..Len(d.Markdown.Files[i].MediaRefs) :
                 \A k \in 1..Len(d.Media.Items) :
                    d.Media.Items[k].ID # d.Markdown.Files[i].MediaRefs[j]
    THEN ErrValidation
    ELSE NoError

validateDocument(d, limits, verifyHashes) ==
    validateDocumentErr(d, limits, verifyHashes).kind

----------------------------------------------------------------------------
(* Plaintext bytes and the payload codec (encoding/gob).                   *)
(* A plaintext is [k, what, v, len]: k = "gob" when the bytes are the gob  *)
(* stream of the bundle v of type what, k = "junk" for any other bytes     *)
(* (malformed, truncated or empty).                                        *)

NoBundle == [BundleVersion |-> 0]
Junk(n) == [k |-> "junk", what |-> "", v |-> NoBundle, len |-> n]

RECURSIVE SumLen(_, _)
SumLen(sizes, i) == IF i > Len(sizes) THEN 0 ELSE sizes[i] + SumLen(sizes, i + 1)

\* The length of a bundle's gob stream: the type descriptors, then every
\* field's bytes.  The stream holds every content byte once.
gobLen(v, what) ==
    IF what = "MarkdownBundle"
    THEN 120 + Len(v.RootPath)
         + SumLen([i \in 1..Len(v.Files) |->
                     8 + Len(v.Files[i].Path) + v.Files[i].Content.len
                       + Len(v.Files[i].MediaRefs)], 1)
    ELSE 140
         + SumLen([i \in 1..Len(v.Items) |->
                     8 + Len(v.Items[i].ID) + Len(v.Items[i].Path)
                       + v.Items[i].Data.len
                       + (IF v.Items[i].SHA256.zero THEN 0 ELSE 32)], 1)

gobEncode(v, what) == [k |-> "gob", what |-> what, v |-> v, len |-> gobLen(v, what)]

\* The first n bytes of a plaintext.
Prefix(pl, n) == IF n >= pl.len THEN pl ELSE Junk(n)

\* gob.NewDecoder(bytes.NewReader(data)).Decode(out) into a zero value of type
\* what.  A stream of the other bundle type fills the one field the two
\* struct types share by name.  Errors are those of encoding/gob and io.
gobDecode(data, what) ==
    IF data.k = "gob" /\ data.what = what THEN [err |-> NoError, v |-> data.v]
    ELSE IF data.k = "gob"
    THEN [err |-> NoError,
          v |-> IF what = "MarkdownBundle"
                THEN [BundleVersion |-> data.v.BundleVersion, RootPath |-> <<>>, Files |-> <<>>]
                ELSE [BundleVersion |-> data.v.BundleVersion, Items |-> <<>>]]
    ELSE IF data.len = 0 THEN [err |-> ioEOF, v |-> NoBundle]
    ELSE [err |-> gobError, v |-> NoBundle]

----------------------------------------------------------------------------
(* Compressed streams as the codec libraries see them.                     *)
(* A stream is [codec, clen, out, bad, eofWithData, archiveOK, entries,    *)
(* name, dir, size, openErr]: clen compressed bytes which the codec's      *)
(* reader expands to the plaintext out and then either ends or, when bad,  *)
(* reports an error of its own.  The remaining fields are what archive/zip *)
(* reads in the central directory.                                         *)

Stream(c, out, clen) ==
    [ codec |-> c, clen |-> clen, out |-> out, bad |-> FALSE, eofWithData |-> FALSE,
      archiveOK |-> TRUE, entries |-> 1, name |-> "payload.gob", dir |-> FALSE,
      size |-> U64(out.len), openErr |-> FALSE ]

\* The length the codec compresses a plaintext to.
compressedLen(c, in) == 24 + (in.len \div 4)

\* zipCompress, zstdCompress, lz4Compress, brotliCompress.
libCompress(c, in) == Stream(c, in, compressedLen(c, in))

\* The bytes of a stream read by codec c: another codec's stream is corrupt.
AsStream(z, c) ==
    IF z.codec = c THEN z
    ELSE [z EXCEPT !.codec = c, !.out = Junk(0), !.bad = TRUE, !.archiveOK = FALSE]

\* The value of a little-endian tuple that is known to be small.
RECURSIVE ToNat(_)
ToNat(a) == IF a = <<>> THEN 0 ELSE a[1] + 256 * ToNat(Tail(a))

\* int64(x) <= 0 and int64(x)+1 <= 0 for a uint64 x.
Int64NonPositive(x) == IsZero(x) \/ x[8] >= 128
Int64PlusOneNonPositive(x) ==
    x[8] >= 128 \/ x = <<255, 255, 255, 255, 255, 255, 255, 127>>

\* io.ReadAll(io.LimitReader(r, N)) on a reader that yields out and then ends
\* (with the codec's error when bad).  nonPositive: N <= 0; within: N bytes
\* are available before the reader ends, n is then N.
readAllLimited(z, nonPositive, within, n) ==
    IF nonPositive THEN [b |-> Prefix(z.out, 0), err |-> NoError]
    ELSE IF within
    THEN [b |-> Prefix(z.out, n),
          err |-> IF n = z.out.len /\ z.bad /\ z.eofWithData THEN codecError ELSE NoError]
    ELSE [b |-> z.out, err |-> IF z.bad THEN codecError ELSE NoError]

zipDecompress(z, expected) ==
    IF ~z.archiveOK THEN [b |-> Junk(0), err |-> codecError]
    ELSE IF z.entries # 1 THEN [b |-> Junk(0), err |-> ErrInvalidPayload]
    ELSE IF z.name # "payload.gob" THEN [b |-> Junk(0), err |-> ErrInvalidPayload]
    ELSE IF z.dir THEN [b |-> Junk(0), err |-> ErrInvalidPayload]
    ELSE IF z.size # expected THEN [b |-> Junk(0), err |-> ErrInvalidPayload]
    ELSE IF z.openErr THEN [b |-> Junk(0), err |-> codecError]
    ELSE LET within == ~WideGt(expected, U64(z.out.len))
             r == readAllLimited(z, Int64NonPositive(expected), within,
                                 IF within THEN ToNat(expected) ELSE 0)
         IN
         \* The entry's reader reports a short entry when it ends before
         \* UncompressedSize64 bytes.
         IF ~Int64NonPositive(expected) /\ ~within /\ r.err = NoError
         THEN [b |-> Junk(0), err |-> ioErrUnexpectedEOF]
         ELSE IF r.err # NoError THEN [b |-> Junk(0), err |-> r.err]
         ELSE r

zstdDecompress(z, expected) ==
    IF z.bad THEN [b |-> Junk(0), err |-> codecError]
    ELSE IF WideGt(U64(z.out.len), expected)
    THEN [b |-> Junk(0), err |-> ErrInvalidPayload]
    ELSE [b |-> z.out, err |-> NoError]

lz4Decompress(z, expected) ==
    LET within == WideGt(U64(z.out.len), expected)
        r == readAllLimited(z, Int64PlusOneNonPositive(expected), within,
                            IF within THEN ToNat(expected) + 1 ELSE 0)
    IN
    IF r.err # NoError THEN [b |-> Junk(0), err |-> r.err]
    ELSE IF WideGt(U64(r.b.len), expected)
    THEN [b |-> Junk(0), err |-> ErrInvalidPayload]
    ELSE r

brotliDecompress(z, expected) ==
    LET within == WideGt(U64(z.out.len), expected)
        r == readAllLimited(z, Int64PlusOneNonPositive(expected), within,
                            IF within THEN ToNat(expected) + 1 ELSE 0)
    IN
    IF r.err # NoError THEN [b |-> Junk(0), err |-> r.err]
    ELSE IF WideGt(U64(r.b.len), expected)
    THEN [b |-> Junk(0), err |-> ErrInvalidPayload]
    ELSE r

----------------------------------------------------------------------------
(* Section payloads as stored, and the compression envelope.               *)
(* A payload is [k, plain, prefix, z, n]: k = "plain" for bytes read as a  *)
(* plaintext, k = "env" for an 8-byte little-endian prefix followed by a   *)
(* stream, k = "short" for n < 8 bytes that hold no prefix.                *)

NoStream == Stream(CompNone, Junk(0), 0)
PlainPayload(pl) == [k |-> "plain", plain |-> pl, prefix |-> U64(0), z |-> NoStream, n |-> 0]
EnvPayload(prefix, z) == [k |-> "env", plain |-> Junk(0), prefix |-> prefix, z |-> z, n |-> 0]
ShortPayload(n) == [k |-> "short", plain |-> Junk(0), prefix |-> U64(0), z |-> NoStream, n |-> n]

\* len(payload)
payloadLen(p) ==
    CASE p.k = "plain" -> p.plain.len
      [] p.k = "env"   -> 8 + p.z.clen
      [] p.k = "short" -> p.n

\* The payload's bytes taken as a plaintext: an envelope is no gob stream.
AsPlain(p) == IF p.k = "plain" THEN p.plain ELSE Junk(payloadLen(p))

compressPayload(comp, gobBytes) ==
    IF comp = CompNone
    THEN [sectionFlags |-> CompNone, payload |-> PlainPayload(gobBytes), err |-> NoError]
    ELSE IF comp \in {CompZIP, CompZSTD, CompLZ4, CompBR}
    THEN [sectionFlags |-> BitOr(comp, sectionFlagHasUncompressedLen),
          payload |-> EnvPayload(U64(gobBytes.len), libCompress(comp, gobBytes)),
          err |-> NoError]
    ELSE [sectionFlags |-> 0, payload |-> ShortPayload(0), err |-> ErrInvalidPayload]

\* The result of decompressPayload: the plaintext, the error, and (ghost)
\* whether a codec's decompress routine was called and with which length.
DResult(out, err, called, expected) ==
    [out |-> out, err |-> err, called |-> called, expected |-> expected]

decompressPayload(comp, sectionFlags, payload, maxUncompressed) ==
    LET hasLen == BitAnd(sectionFlags, sectionFlagHasUncompressedLen) # 0 IN
    IF comp = CompNone
    THEN IF hasLen THEN DResult(Junk(0), ErrInvalidPayload, FALSE, U64(0))
         ELSE DResult(AsPlain(payload), NoError, FALSE, U64(0))
    ELSE IF ~hasLen THEN DResult(Junk(0), ErrInvalidPayload, FALSE, U64(0))
    ELSE IF payloadLen(payload) < 8 THEN DResult(Junk(0), ErrInvalidPayload, FALSE, U64(0))
    ELSE LET uncompressedLen == payload.prefix IN
         IF WideGt(uncompressedLen, maxUncompressed)
         THEN DResult(Junk(0), ErrLimitExceeded, FALSE, uncompressedLen)
         ELSE IF comp \notin {CompZIP, CompZSTD, CompLZ4, CompBR}
         THEN DResult(Junk(0), ErrInvalidPayload, FALSE, uncompressedLen)
         ELSE LET z == AsStream(payload.z, comp)
                  r == CASE comp = CompZIP  -> zipDecompress(z, uncompressedLen)
                         [] comp = CompZSTD -> zstdDecompress(z, uncompressedLen)
                         [] comp = CompLZ4  -> lz4Decompress(z, uncompressedLen)
                         [] comp = CompBR   -> brotliDecompress(z, uncompressedLen)
              IN
              IF r.err # NoError THEN DResult(Junk(0), r.err, TRUE, uncompressedLen)
              ELSE IF U64(r.b.len) # uncompressedLen
              THEN DResult(Junk(0), ErrInvalidPayload, TRUE, uncompressedLen)
              ELSE DResult(r.b, NoError, TRUE, uncompressedLen)

----------------------------------------------------------------------------
(* Wire framer (wire.go).                                                  *)

writeFixedHeaderBytes(h) ==
    h.Magic \o PutUint(h.Version, 2) \o PutUint(h.HeaderFlags, 2)
            \o h.FixedHdrSize \o h.MetadataLength \o h.Reserved0 \o h.Reserved1

\* readFixedHeader's field extraction from the 32 bytes read.
parseFixedHeader(buf) ==
    [ Magic          |-> SubSeq(buf, 1, 8),
      Version        |-> Uint16(SubSeq(buf, 9, 10)),
      HeaderFlags    |-> Uint16(SubSeq(buf, 11, 12)),
      FixedHdrSize   |-> SubSeq(buf, 13, 16),
      MetadataLength |-> SubSeq(buf, 17, 20),
      Reserved0      |-> SubSeq(buf, 21, 24),
      Reserved1      |-> SubSeq(buf, 25, 32) ]

writeSectionHeaderBytes(sh) ==
    PutUint(sh.SectionType, 2) \o PutUint(sh.SectionFlags, 2)
        \o sh.PayloadLen \o sh.Reserved

\* readSectionHeader's field extraction from the 16 bytes read.
parseSectionHeader(buf) ==
    [ SectionType  |-> Uint16(SubSeq(buf, 1, 2)),
      SectionFlags |-> Uint16(SubSeq(buf, 3, 4)),
      PayloadLen   |-> SubSeq(buf, 5, 12),
      Reserved     |-> SubSeq(buf, 13, 16) ]

compression(sh) == BitAnd(sh.SectionFlags, sectionFlagCompressionMask)

hasUncompressedLen(sh) == BitAnd(sh.SectionFlags, sectionFlagHasUncompressedLen) # 0

\* validateSectionHeader without the test of the reserved field.
validateSectionHeaderNoReserved(sh, expected) ==
    IF sh.SectionType # expected THEN ErrInvalidSection
    ELSE LET comp == compression(sh) IN
         IF comp \notin {CompNone, CompZIP, CompZSTD, CompLZ4, CompBR}
         THEN ErrInvalidSection
         ELSE IF comp = CompNone
         THEN (IF hasUncompressedLen(sh) THEN ErrInvalidSection ELSE NoError)
         ELSE (IF ~hasUncompressedLen(sh) THEN ErrInvalidSection ELSE NoError)

\* validateSectionHeader without the tests of the compression flags.
validateSectionHeaderNoFlags(sh, expected) ==
    IF ~IsZero(sh.Reserved) THEN ErrInvalidSection
    ELSE IF sh.SectionType # expected THEN ErrInvalidSection
    ELSE NoError

\* validateSectionHeader refusing flag bits it does not know.
validateSectionHeaderKnownBits(sh, expected) ==
    IF ~IsZero(sh.Reserved) THEN ErrInvalidSection
    ELSE IF sh.SectionType # expected THEN ErrInvalidSection
    ELSE IF sh.SectionFlags >= 32 THEN ErrInvalidSection
    ELSE LET comp == compression(sh) IN
         IF comp \notin {CompNone, CompZIP, CompZSTD, CompLZ4, CompBR}
         THEN ErrInvalidSection
         ELSE IF comp = CompNone
         THEN (IF hasUncompressedLen(sh) THEN ErrInvalidSection ELSE NoError)
         ELSE (IF ~hasUncompressedLen(sh) THEN ErrInvalidSection ELSE NoError)

validateSectionHeader(sh, expected) ==
    IF ~IsZero(sh.Reserved) THEN ErrInvalidSection
    ELSE IF sh.SectionType # expected THEN ErrInvalidSection
    ELSE LET comp == compression(sh) IN
         IF comp \notin {CompNone, CompZIP, CompZSTD, CompLZ4, CompBR}
         THEN ErrInvalidSection
         ELSE IF comp = CompNone
         THEN (IF hasUncompressedLen(sh) THEN ErrInvalidSection ELSE NoError)
         ELSE (IF ~hasUncompressedLen(sh) THEN ErrInvalidSection ELSE NoError)

----------------------------------------------------------------------------
(* Byte streams, io.Writer and io.Reader.                                  *)
(* A segment is [t |-> "bytes", b] (concrete bytes), [t |-> "json", js]    *)
(* (a metadata block), [t |-> "payload", p] (a section payload) or         *)
(* [t |-> "part", len] (the first len bytes of a bulk segment).            *)

BytesSeg(b) == [t |-> "bytes", b |-> b]
JSONSeg(js) == [t |-> "json", js |-> js]
PayloadSeg(p) == [t |-> "payload", p |-> p]
PartSeg(n) == [t |-> "part", len |-> n]

SegLen(seg) ==
    CASE seg.t = "bytes"   -> Len(seg.b)
      [] seg.t = "json"    -> seg.js.len
      [] seg.t = "payload" -> payloadLen(seg.p)
      [] seg.t = "part"    -> seg.len

\* The first n bytes of a segment, n < SegLen(seg).
CutSeg(seg, n) ==
    IF seg.t = "bytes" THEN BytesSeg(SubSeq(seg.b, 1, n)) ELSE PartSeg(n)

RECURSIVE StreamLen(_, _)
StreamLen(s, from) ==
    IF from > Len(s) THEN 0 ELSE SegLen(s[from]) + StreamLen(s, from + 1)

\* A writer is [kind, n, buf, calls]: the bytes it holds and (ghost) the
\* Write calls made on it, each with the length passed and the error returned.
\* bytes.Buffer: every Write appends all of p.
BufferWriter == [kind |-> "buffer", n |-> 0, buf |-> <<>>, calls |-> <<>>]
\* failingWriter{n} (mdocx_test.go): accepts n more bytes, then fails.
FailingWriter(n) == [kind |-> "failing", n |-> n, buf |-> <<>>, calls |-> <<>>]
\* errAfterWriter{remaining} (compress_test.go): fails on the first Write
\* that does not fit, taking none of its bytes.
ErrAfterWriter(n) == [kind |-> "errAfter", n |-> n, buf |-> <<>>, calls |-> <<>>]

\* The writer's bytes and budget after w.Write(p), and the error returned.
WriteBytes(wr, seg) ==
    IF wr.kind = "buffer"
    THEN [w |-> [wr EXCEPT !.buf = IF SegLen(seg) = 0 THEN @ ELSE Append(@, seg)],
          err |-> NoError]
    ELSE IF wr.n <= 0 THEN [w |-> wr, err |-> ioErrClosedPipe]
    ELSE IF wr.kind = "errAfter"
    THEN IF SegLen(seg) > wr.n THEN [w |-> wr, err |-> ioErrClosedPipe]
         ELSE [w |-> [wr EXCEPT !.n = @ - SegLen(seg),
                                !.buf = IF SegLen(seg) = 0 THEN @ ELSE Append(@, seg)],
               err |-> NoError]
    ELSE LET k == IF SegLen(seg) > wr.n THEN wr.n ELSE SegLen(seg) IN
         [w |-> [wr EXCEPT !.n = @ - k,
                           !.buf = IF k = 0 THEN @
                                   ELSE IF k < SegLen(seg) THEN Append(@, CutSeg(seg, k))
                                   ELSE Append(@, seg)],
          err |-> NoError]

\* w.Write(p): the writer afterwards, and the error returned.
Write(wr, seg) ==
    LET r == WriteBytes(wr, seg) IN
    [w |-> [r.w EXCEPT !.calls = Append(@, [n |-> SegLen(seg), err |-> r.err])],
     err |-> r.err]

\* io.ReadFull(r, buf) with len(buf) = n (a uint64): the segment read, the
\* error, and the reader's position afterwards.  Decode's reads follow the
\* stream's segments: a read either takes the next segment whole or asks for
\* more bytes than the stream still holds.
NoSeg == BytesSeg(<<>>)
ReadFull(s, pos, n) ==
    LET rem == StreamLen(s, pos) IN
    IF IsZero(n) THEN [seg |-> NoSeg, err |-> NoError, pos |-> pos]
    ELSE IF WideGt(n, U64(rem))
    THEN [seg |-> NoSeg,
          err |-> IF rem = 0 THEN ioEOF ELSE ioErrUnexpectedEOF,
          pos |-> Len(s) + 1]
    ELSE CASE n = U64(SegLen(s[pos])) ->
              [seg |-> s[pos], err |-> NoError, pos |-> pos + 1]

ZeroFixedHeader ==
    [ Magic |-> <<0, 0, 0, 0, 0, 0, 0, 0>>, Version |-> 0, HeaderFlags |-> 0,
      FixedHdrSize |-> U32(0), MetadataLength |-> U32(0),
      Reserved0 |-> U32(0), Reserved1 |-> U64(0) ]

ZeroSectionHeader ==
    [ SectionType |-> 0, SectionFlags |-> 0, PayloadLen |-> U64(0), Reserved |-> U32(0) ]

writeFixedHeader(wr, h) == Write(wr, BytesSeg(writeFixedHeaderBytes(h)))

readFixedHeader(s, pos) ==
    LET r == ReadFull(s, pos, U64(fixedHeaderSizeV1)) IN
    [ h   |-> IF r.err = NoError THEN parseFixedHeader(r.seg.b) ELSE ZeroFixedHeader,
      err |-> r.err, pos |-> r.pos ]

writeSectionHeader(wr, sh) == Write(wr, BytesSeg(writeSectionHeaderBytes(sh)))

readSectionHeader(s, pos) ==
    LET r == ReadFull(s, pos, U64(sectionHeaderSize)) IN
    [ sh  |-> IF r.err = NoError THEN parseSectionHeader(r.seg.b) ELSE ZeroSectionHeader,
      err |-> r.err, pos |-> r.pos ]

----------------------------------------------------------------------------
(* Metadata (encoding/json).  A JSON text is [len, kind, obj]: its length, *)
(* the kind of value it parses as ("object", "null", "array", ... or       *)
(* "invalid") and, for an object, the object.                              *)

JSONText(len, kind, obj) == [len |-> len, kind |-> kind, obj |-> obj]

\* json.Marshal(doc.Metadata) for a non-nil map: a map holding a func value
\* has no JSON text.
jsonMarshal(m) ==
    IF m.obj = "func" THEN [b |-> JSONText(0, "invalid", ""), err |-> jsonError]
    ELSE [b |-> JSONText(m.jsonLen, "object", m.obj), err |-> NoError]

\* json.Unmarshal(metaBytes, &md) into a map[string]any.
jsonUnmarshal(js) ==
    CASE js.kind = "object" ->
           [md |-> [nil |-> FALSE, obj |-> js.obj, jsonLen |-> js.len], err |-> NoError]
      [] js.kind = "null" -> [md |-> NilMetadata, err |-> NoError]
      [] OTHER -> [md |-> NilMetadata, err |-> jsonError]

----------------------------------------------------------------------------
(* The inputs explored: documents, options, writers.                       *)

Hello == [len |-> 8, utf8 |-> TRUE, tag |-> "hello"]
\* 200 MiB of text: below the per-file ceiling, two of them above 256 MiB.
Big == [len |-> 209715200, utf8 |-> TRUE, tag |-> "big"]
Png == [len |-> 4, utf8 |-> FALSE, tag |-> "png"]

SmallMetadata == [nil |-> FALSE, obj |-> "title", jsonLen |-> 19]
\* A metadata object whose JSON text is one byte longer than 1 MiB.
HugeMetadata == [nil |-> FALSE, obj |-> "huge", jsonLen |-> 1048577]

\* map[string]any{"bad": func() {}}
UnmarshalableMetadata == [nil |-> FALSE, obj |-> "func", jsonLen |-> 0]

PathA == <<"a", ".", "m", "d">>
PathB == <<"d", "/", "b", ".", "m", "d">>

MarkdownFile(path, content) ==
    [Path |-> path, Content |-> content, MediaRefs |-> <<>>, Attributes |-> <<>>]

MediaItem(id, data, sha) ==
    [ID |-> id, Path |-> <<"l", ".", "p", "n", "g">>, MIMEType |-> "image/png",
     Data |-> data, SHA256 |-> sha, Attributes |-> <<>>]

Document(meta, files, items) ==
    [ nil |-> FALSE, Metadata |-> meta,
      Markdown |-> [BundleVersion |-> VersionV1, RootPath |-> <<>>, Files |-> files],
      Media |-> [BundleVersion |-> VersionV1, Items |-> items] ]

SeqsUpTo(S, n) == UNION {[1..k -> S] : k \in 0..n}

FileSet == {MarkdownFile(p, c) : p \in {PathA, PathB}, c \in {Hello, Big}}
ItemSet == {MediaItem(<<"l", "o", "g", "o">>, Png, h) :
               h \in {ZeroSHA, sha256Sum(Png), sha256Sum(Hello)}}

Docs ==
    {NilDoc} \cup
    {Document(m, f, i) : m \in {NilMetadata, SmallMetadata, HugeMetadata},
                         f \in SeqsUpTo(FileSet, MaxFiles),
                         i \in SeqsUpTo(ItemSet, MaxItems)}
    \cup {Document(UnmarshalableMetadata, <<MarkdownFile(PathA, Hello)>>, <<>>)}

\* sampleDoc() of the tests, with and without metadata and media.
SampleDocs ==
    {Document(m, <<MarkdownFile(PathA, Hello)>>, i) :
        m \in {NilMetadata, SmallMetadata},
        i \in {<<>>, <<MediaItem(<<"l", "o", "g", "o">>, Png, ZeroSHA)>>}}

\* Limits values given through WithReadLimits and WithWriteLimits: zero fields take the defaults.
SmallMetadataLimit == [zeroLimits EXCEPT !.MaxMetadataLen = U32(10)]
SmallSectionLimit ==
    [zeroLimits EXCEPT !.MaxMarkdownSectionLen = U64(20), !.MaxMediaSectionLen = U64(20)]
SmallUncompressedLimit ==
    [zeroLimits EXCEPT !.MaxMarkdownUncompressed = U64(50),
                       !.MaxMediaUncompressed = U64(50)]
LargeMetadataLimit == [zeroLimits EXCEPT !.MaxMetadataLen = <<255, 255, 255, 255>>]

SmallCountLimit == [zeroLimits EXCEPT !.MaxMarkdownFiles = 1, !.MaxMediaItems = 1]
SmallSizeLimit ==
    [zeroLimits EXCEPT !.MaxSingleMarkdownFileSize = U64(2), !.MaxSingleMediaSize = U64(2)]

writeConfig(limits, verifyHashes, autoPopulate, mdCompression, mediaCompression) ==
    [ limits |-> limits, verifyHashes |-> verifyHashes, autoPopulate |-> autoPopulate,
      mdCompression |-> mdCompression, mediaCompression |-> mediaCompression ]

\* Encode's configuration after the options: the defaults, WithMarkdownCompression
\* and WithMediaCompression, WithAutoPopulateSHA256, WithVerifyHashesOnWrite,
\* WithWriteLimits.
DefaultWriteOptions(c) == writeConfig(defaultLimits, TRUE, TRUE, c, c)

WriteOptionSet ==
    {DefaultWriteOptions(c) : c \in {CompNone, CompZIP, CompZSTD, CompLZ4, CompBR}}
    \cup {writeConfig(defaultLimits, v, FALSE, CompZSTD, CompZSTD) : v \in BOOLEAN}
    \cup {writeConfig(defaultLimits, TRUE, TRUE, CompNone, 9),
          writeConfig(defaultLimits, TRUE, TRUE, 9, CompNone)}
    \cup {writeConfig(l, TRUE, TRUE, c, c) :
             l \in {SmallMetadataLimit, SmallSectionLimit, SmallUncompressedLimit,
                    SmallCountLimit, SmallSizeLimit},
             c \in {CompNone, CompZSTD}}

Writers ==
    {BufferWriter, FailingWriter(0), FailingWriter(40), FailingWriter(300)}
    \cup {ErrAfterWriter(n) : n \in {0, 32, 60, 100, 210, 230}}

----------------------------------------------------------------------------
(* Encode (encode.go), one action per step of the function.                *)

NoJSON == JSONText(0, "object", "")

EncodeLocals ==
    [ limits |-> defaultLimits, metadataBytes |-> NoJSON, headerFlags |-> 0,
      mdFlags |-> 0, mdPayload |-> ShortPayload(0),
      mediaFlags |-> 0, mediaPayload |-> ShortPayload(0) ]

\* A loop that overwrites every MediaItem.SHA256, zero or not.
autoPopulateAll(d) ==
    [d EXCEPT !.Media.Items =
        [i \in 1..Len(d.Media.Items) |->
            [d.Media.Items[i] EXCEPT !.SHA256 = computedSHA256(d.Media.Items[i])]]]

\* Auto-population on a copy: the caller's Document keeps its digests.
autoPopulateCopy(d) == d

\* The loop of Encode that fills in every all-zero MediaItem.SHA256.
autoPopulate(d) ==
    LET items == d.Media.Items IN
    [d EXCEPT !.Media.Items =
        [i \in 1..Len(items) |->
            IF items[i].SHA256 = ZeroSHA
            THEN [items[i] EXCEPT !.SHA256 = computedSHA256(items[i])]
            ELSE items[i]]]

\* Encode returns err.
EncodeReturn(err) == eerr' = err /\ epc' = "done"

\* Options applied, limits resolved, nil check, auto-population.
\* Encode resolving its limits into a Limits value that Decode also uses.
E_BeginSharedLimits ==
    /\ epc = "begin"
    /\ enc' = [enc EXCEPT !.limits = withDefaults(wopts.limits)]
    /\ dec' = [dec EXCEPT !.limits = withDefaults(wopts.limits)]
    /\ IF doc.nil
       THEN EncodeReturn(ErrValidation) /\ doc' = doc
       ELSE /\ doc' = IF wopts.autoPopulate THEN autoPopulate(doc) ELSE doc
            /\ epc' = "validate"
            /\ eerr' = eerr
    /\ UNCHANGED <<doc0, first, wopts, w, stream, tampers, ropts, dpc, rpos, dres, derr, log>>

E_Begin ==
    /\ epc = "begin"
    /\ enc' = [enc EXCEPT !.limits = withDefaults(wopts.limits)]
    /\ IF doc.nil
       THEN EncodeReturn(ErrValidation) /\ doc' = doc
       ELSE /\ doc' = IF wopts.autoPopulate THEN autoPopulate(doc) ELSE doc
            /\ epc' = "validate"
            /\ eerr' = eerr
    /\ UNCHANGED <<doc0, first, wopts, w, stream, tampers, ropts, dpc, rpos, dec, dres, derr, log>>

\* Validation made only after the fixed header went to the writer.
E_ValidateAfterHeader ==
    /\ epc = "validate"
    /\ w' = writeFixedHeader(w, ZeroFixedHeader).w
    /\ LET err == validateDocument(doc, enc.limits, wopts.verifyHashes) IN
       IF err # NoError THEN EncodeReturn(err)
       ELSE epc' = "serialize" /\ eerr' = eerr
    /\ UNCHANGED <<doc, doc0, first, wopts, enc, stream, tampers, ropts, dpc, rpos, dec,
                   dres, derr, log>>

E_Validate ==
    /\ epc = "validate"
    /\ LET err == validateDocument(doc, enc.limits, wopts.verifyHashes) IN
       IF err # NoError THEN EncodeReturn(err)
       ELSE epc' = "serialize" /\ eerr' = eerr
    /\ UNCHANGED <<doc, doc0, first, wopts, enc, w, stream, tampers, ropts, dpc, rpos, dec,
                   dres, derr, log>>

\* Metadata marshalling and its ceiling, gob encoding and compression of the
\* two bundles.
E_Serialize ==
    /\ epc = "serialize"
    /\ LET hasMeta == ~doc.Metadata.nil
           jm      == jsonMarshal(doc.Metadata)
           mdGob   == gobEncode(doc.Markdown, "MarkdownBundle")
           mediaGob == gobEncode(doc.Media, "MediaBundle")
           md      == compressPayload(wopts.mdCompression, mdGob)
           media   == compressPayload(wopts.mediaCompression, mediaGob)
       IN
       IF hasMeta /\ jm.err # NoError
       THEN EncodeReturn(jm.err) /\ enc' = enc
       ELSE IF hasMeta /\ WideGt(U64(jm.b.len), Widen(enc.limits.MaxMetadataLen, 8))
       THEN EncodeReturn(ErrLimitExceeded) /\ enc' = enc
       ELSE IF md.err # NoError THEN EncodeReturn(md.err) /\ enc' = enc
       ELSE IF media.err # NoError THEN EncodeReturn(media.err) /\ enc' = enc
       ELSE /\ enc' = [enc EXCEPT
                         !.metadataBytes = IF hasMeta THEN jm.b ELSE NoJSON,
                         !.headerFlags = IF hasMeta THEN HeaderFlagMetadataJSON ELSE 0,
                         !.mdFlags = md.sectionFlags, !.mdPayload = md.payload,
                         !.mediaFlags = media.sectionFlags,
                         !.mediaPayload = media.payload]
            /\ epc' = "fixedHeader"
            /\ eerr' = eerr
    /\ UNCHANGED <<doc, doc0, first, wopts, w, stream, tampers, ropts, dpc, rpos, dec, dres,
                   derr, log>>

\* A write whose error is dropped: Encode goes on to the next step.
EncodeWriteOn(r, next) ==
    /\ w' = r.w
    /\ epc' = next /\ eerr' = eerr
    /\ UNCHANGED <<doc, doc0, first, wopts, enc, stream, tampers, ropts, dpc, rpos, dec, dres,
                   derr, log>>

\* One write of Encode: the writer's state after it, and either the return
\* of the write's error or the move to the next step.  The count of bytes
\* the writer reports is discarded.
EncodeWrite(r, next) ==
    /\ w' = r.w
    /\ IF r.err # NoError THEN EncodeReturn(r.err)
       ELSE epc' = next /\ eerr' = eerr
    /\ UNCHANGED <<doc, doc0, first, wopts, enc, stream, tampers, ropts, dpc, rpos, dec, dres,
                   derr, log>>

E_WriteFixedHeader ==
    /\ epc = "fixedHeader"
    /\ LET h == [ Magic |-> Magic, Version |-> VersionV1,
                  HeaderFlags |-> enc.headerFlags,
                  FixedHdrSize |-> U32(fixedHeaderSizeV1),
                  MetadataLength |-> U32(enc.metadataBytes.len),
                  Reserved0 |-> U32(0), Reserved1 |-> U64(0) ]
       IN EncodeWrite(writeFixedHeader(w, h), "metadata")

E_WriteMetadata ==
    /\ epc = "metadata"
    /\ IF enc.metadataBytes.len > 0
       THEN EncodeWrite(Write(w, JSONSeg(enc.metadataBytes)), "mdHeader")
       ELSE EncodeWrite([w |-> w, err |-> NoError], "mdHeader")

E_WriteMarkdownHeader ==
    /\ epc = "mdHeader"
    /\ LET mdHeader == [ SectionType |-> SectionMarkdown, SectionFlags |-> enc.mdFlags,
                         PayloadLen |-> U64(payloadLen(enc.mdPayload)),
                         Reserved |-> U32(0) ]
       IN EncodeWrite(writeSectionHeader(w, mdHeader), "mdPayload")

E_WriteMarkdownPayload ==
    /\ epc = "mdPayload"
    /\ EncodeWrite(Write(w, PayloadSeg(enc.mdPayload)), "mediaHeader")

E_WriteMediaHeader ==
    /\ epc = "mediaHeader"
    /\ LET mediaHeader == [ SectionType |-> SectionMedia, SectionFlags |-> enc.mediaFlags,
                            PayloadLen |-> U64(payloadLen(enc.mediaPayload)),
                            Reserved |-> U32(0) ]
       IN EncodeWrite(writeSectionHeader(w, mediaHeader), "mediaPayload")

E_WriteMediaPayload ==
    /\ epc = "mediaPayload"
    /\ LET r == Write(w, PayloadSeg(enc.mediaPayload)) IN
       w' = r.w /\ EncodeReturn(r.err)
    /\ UNCHANGED <<doc, doc0, first, wopts, enc, stream, tampers, ropts, dpc, rpos, dec, dres,
                   derr, log>>


----------------------------------------------------------------------------
(* Decode (decode.go), one action per step of the function.                *)

readConfig(limits, verifyHashes) == [limits |-> limits, verifyHashes |-> verifyHashes]

DefaultReadOptions == readConfig(defaultLimits, TRUE)

ReadOptionSet ==
    {DefaultReadOptions, readConfig(defaultLimits, FALSE)}
    \cup {readConfig(l, TRUE) : l \in {SmallMetadataLimit, SmallSectionLimit,
                                       SmallUncompressedLimit, LargeMetadataLimit}}

EmptyMarkdownBundle == [BundleVersion |-> 0, RootPath |-> <<>>, Files |-> <<>>]
EmptyMediaBundle == [BundleVersion |-> 0, Items |-> <<>>]

DecodeLocals ==
    [ limits |-> defaultLimits, h |-> ZeroFixedHeader, metadata |-> NilMetadata,
      mdSec |-> ZeroSectionHeader, mdPayload |-> ShortPayload(0), mdGob |-> Junk(0),
      markdown |-> EmptyMarkdownBundle,
      mediaSec |-> ZeroSectionHeader, mediaPayload |-> ShortPayload(0),
      mediaGob |-> Junk(0), media |-> EmptyMediaBundle ]

\* Ghost events: "read" (io.ReadFull asked for n bytes), "alloc" (make of n
\* bytes), "decompress" (decompressPayload called on n stored bytes), "codec"
\* (a codec's decompress routine called with declared length n), "gob"
\* (gobDecode called on n bytes).
Event(ev, what, n) == [ev |-> ev, what |-> what, n |-> n]

\* Decode returns (d, err).
DecodeReturn(d, err) == dres' = d /\ derr' = err /\ dpc' = "done"
DecodeGoto(next) == dres' = dres /\ derr' = derr /\ dpc' = next

\* The fixed-header checks with the version tested before the magic.
checkFixedHeaderVersionFirst(h, limits) ==
    IF h.Version # VersionV1 THEN ErrUnsupportedVersion
    ELSE IF h.Magic # Magic THEN ErrInvalidMagic
    ELSE IF h.FixedHdrSize # U32(fixedHeaderSizeV1) THEN ErrInvalidHeader
    ELSE IF ~IsZero(h.Reserved0) \/ ~IsZero(h.Reserved1) THEN ErrInvalidHeader
    ELSE IF WideGt(h.MetadataLength, limits.MaxMetadataLen) THEN ErrLimitExceeded
    ELSE NoError

\* The fixed-header checks with the reserved fields tested before the version.
checkFixedHeaderReservedFirst(h, limits) ==
    IF h.Magic # Magic THEN ErrInvalidMagic
    ELSE IF h.FixedHdrSize # U32(fixedHeaderSizeV1) THEN ErrInvalidHeader
    ELSE IF ~IsZero(h.Reserved0) \/ ~IsZero(h.Reserved1) THEN ErrInvalidHeader
    ELSE IF h.Version # VersionV1 THEN ErrUnsupportedVersion
    ELSE IF WideGt(h.MetadataLength, limits.MaxMetadataLen) THEN ErrLimitExceeded
    ELSE NoError

\* The section-header checks without the ceiling of the stored length.
checkSectionHeaderNoLimit(sh, expected, maxSectionLen) ==
    validateSectionHeader(sh, expected)

\* The fixed-header checks with the metadata ceiling tested right after the magic.
checkFixedHeaderLimitFirst(h, limits) ==
    IF h.Magic # Magic THEN ErrInvalidMagic
    ELSE IF WideGt(h.MetadataLength, limits.MaxMetadataLen) THEN ErrLimitExceeded
    ELSE IF h.FixedHdrSize # U32(fixedHeaderSizeV1) THEN ErrInvalidHeader
    ELSE IF h.Version # VersionV1 THEN ErrUnsupportedVersion
    ELSE IF ~IsZero(h.Reserved0) \/ ~IsZero(h.Reserved1) THEN ErrInvalidHeader
    ELSE NoError

\* The checks of the fixed header, in the order Decode makes them.
checkFixedHeader(h, limits) ==
    IF h.Magic # Magic THEN ErrInvalidMagic
    ELSE IF h.FixedHdrSize # U32(fixedHeaderSizeV1) THEN ErrInvalidHeader
    ELSE IF h.Version # VersionV1 THEN ErrUnsupportedVersion
    ELSE IF ~IsZero(h.Reserved0) \/ ~IsZero(h.Reserved1) THEN ErrInvalidHeader
    ELSE IF WideGt(h.MetadataLength, limits.MaxMetadataLen) THEN ErrLimitExceeded
    ELSE NoError

\* The checks of a section header: validateSectionHeader, then the ceiling
\* of the stored length.
checkSectionHeader(sh, expected, maxSectionLen) ==
    IF validateSectionHeader(sh, expected) # NoError
    THEN validateSectionHeader(sh, expected)
    ELSE IF WideGt(sh.PayloadLen, maxSectionLen) THEN ErrLimitExceeded
    ELSE NoError

\* The metadata checks without the test of the metadata flag.
checkMetadataNoFlag(h, j) ==
    IF j.err # NoError THEN j.err
    ELSE IF j.md.nil THEN ErrInvalidHeader
    ELSE NoError

\* The checks of a metadata block that was read whole, j being the result of
\* json.Unmarshal on it: the metadata flag, the parse, the nil map.
checkMetadata(h, j) ==
    IF BitAnd(h.HeaderFlags, HeaderFlagMetadataJSON) = 0 THEN ErrInvalidHeader
    ELSE IF j.err # NoError THEN j.err
    ELSE IF j.md.nil THEN ErrInvalidHeader
    ELSE NoError

\* The bytes a payload read returned, as a section payload.
AsPayload(seg) == IF seg.t = "payload" THEN seg.p ELSE ShortPayload(SegLen(seg))

D_Begin ==
    /\ dpc = "idle"
    /\ \E ro \in ReadOptionSet \cup {readConfig(wopts.limits, TRUE)} :
         /\ ro.limits = defaultLimits \/ doc0 \in SampleDocs \/ first.ran # "none"
         /\ first.ran # "none" => ro = first.ropts
         /\ ropts' = ro
         /\ dec' = [DecodeLocals EXCEPT !.limits = withDefaults(ro.limits)]
    /\ rpos' = 1
    /\ log' = <<>>
    /\ DecodeGoto("fixedHeader")
    /\ UNCHANGED <<doc, doc0, first, wopts, epc, enc, w, eerr, stream, tampers>>

D_FixedHeader ==
    /\ dpc = "fixedHeader"
    /\ LET r == readFixedHeader(stream, rpos)
           err == checkFixedHeader(r.h, dec.limits)
       IN /\ rpos' = r.pos
          /\ log' = Append(log, Event("read", "fixedHeader", U64(fixedHeaderSizeV1)))
          /\ dec' = [dec EXCEPT !.h = r.h]
          /\ IF r.err # NoError THEN DecodeReturn(NilDoc, r.err)
             ELSE IF err # NoError THEN DecodeReturn(NilDoc, err)
             ELSE DecodeGoto("metadata")
    /\ UNCHANGED <<doc, doc0, first, wopts, epc, enc, w, eerr, stream, tampers, ropts>>

D_Metadata ==
    /\ dpc = "metadata"
    /\ IF ~IsZero(dec.h.MetadataLength)
       THEN LET n == Widen(dec.h.MetadataLength, 8)
                r == ReadFull(stream, rpos, n)
                j == jsonUnmarshal(r.seg.js)
            IN /\ rpos' = r.pos
               /\ log' = log \o <<Event("alloc", "metadata", n), Event("read", "metadata", n)>>
               /\ IF r.err # NoError THEN DecodeReturn(NilDoc, r.err) /\ dec' = dec
                  ELSE IF checkMetadata(dec.h, j) # NoError
                  THEN DecodeReturn(NilDoc, checkMetadata(dec.h, j)) /\ dec' = dec
                  ELSE DecodeGoto("mdHeader") /\ dec' = [dec EXCEPT !.metadata = j.md]
       ELSE DecodeGoto("mdHeader") /\ UNCHANGED <<rpos, log, dec>>
    /\ UNCHANGED <<doc, doc0, first, wopts, epc, enc, w, eerr, stream, tampers, ropts>>

D_Frame == <<doc, doc0, first, wopts, epc, enc, w, eerr, stream, tampers, ropts>>

D_MarkdownHeader ==
    /\ dpc = "mdHeader"
    /\ LET r == readSectionHeader(stream, rpos)
           err == checkSectionHeader(r.sh, SectionMarkdown, dec.limits.MaxMarkdownSectionLen)
       IN /\ rpos' = r.pos
          /\ log' = Append(log, Event("read", "mdHeader", U64(sectionHeaderSize)))
          /\ dec' = [dec EXCEPT !.mdSec = r.sh]
          /\ IF r.err # NoError THEN DecodeReturn(NilDoc, r.err)
             ELSE IF err # NoError THEN DecodeReturn(NilDoc, err)
             ELSE DecodeGoto("mdPayload")
    /\ UNCHANGED D_Frame

D_MarkdownPayload ==
    /\ dpc = "mdPayload"
    /\ LET n == dec.mdSec.PayloadLen
           r == ReadFull(stream, rpos, n)
       IN /\ rpos' = r.pos
          /\ log' = log \o <<Event("alloc", "markdown", n), Event("read", "markdown", n)>>
          /\ IF r.err # NoError THEN DecodeReturn(NilDoc, r.err) /\ dec' = dec
             ELSE DecodeGoto("mdDecompress")
                  /\ dec' = [dec EXCEPT !.mdPayload = AsPayload(r.seg)]
    /\ UNCHANGED <<D_Frame>>

\* The events of one call of decompressPayload.
DecompressEvents(what, payload, d) ==
    <<Event("decompress", what, U64(payloadLen(payload)))>>
    \o (IF d.called THEN <<Event("codec", what, d.expected)>> ELSE <<>>)

D_MarkdownDecompress ==
    /\ dpc = "mdDecompress"
    /\ LET d == decompressPayload(compression(dec.mdSec), dec.mdSec.SectionFlags,
                                  dec.mdPayload, dec.limits.MaxMarkdownUncompressed)
       IN /\ log' = log \o DecompressEvents("markdown", dec.mdPayload, d)
          /\ IF d.err # NoError THEN DecodeReturn(NilDoc, d.err) /\ dec' = dec
             ELSE DecodeGoto("mdGob") /\ dec' = [dec EXCEPT !.mdGob = d.out]
    /\ UNCHANGED <<D_Frame, rpos>>

D_MarkdownGob ==
    /\ dpc = "mdGob"
    /\ LET g == gobDecode(dec.mdGob, "MarkdownBundle") IN
          /\ log' = Append(log, Event("gob", "markdown", U64(dec.mdGob.len)))
          /\ IF g.err # NoError THEN DecodeReturn(NilDoc, g.err) /\ dec' = dec
             ELSE DecodeGoto("mediaHeader") /\ dec' = [dec EXCEPT !.markdown = g.v]
    /\ UNCHANGED <<D_Frame, rpos>>

D_MediaHeader ==
    /\ dpc = "mediaHeader"
    /\ LET r == readSectionHeader(stream, rpos)
           err == checkSectionHeader(r.sh, SectionMedia, dec.limits.MaxMediaSectionLen)
       IN /\ rpos' = r.pos
          /\ log' = Append(log, Event("read", "mediaHeader", U64(sectionHeaderSize)))
          /\ dec' = [dec EXCEPT !.mediaSec = r.sh]
          /\ IF r.err # NoError THEN DecodeReturn(NilDoc, r.err)
             ELSE IF err # NoError THEN DecodeReturn(NilDoc, err)
             ELSE DecodeGoto("mediaPayload")
    /\ UNCHANGED D_Frame

\* The Media payload step without the PayloadLen == 0 branch.
D_MediaPayloadAlwaysRead ==
    /\ dpc = "mediaPayload"
    /\ LET n == dec.mediaSec.PayloadLen
           r == ReadFull(stream, rpos, n)
       IN /\ rpos' = r.pos
          /\ log' = log \o <<Event("alloc", "media", n), Event("read", "media", n)>>
          /\ IF r.err # NoError THEN DecodeReturn(NilDoc, r.err) /\ dec' = dec
             ELSE DecodeGoto("mediaDecompress")
                  /\ dec' = [dec EXCEPT !.mediaPayload = AsPayload(r.seg)]
    /\ UNCHANGED <<D_Frame>>

\* PayloadLen == 0: the empty bundle, no read; otherwise allocate and read.
D_MediaPayload ==
    /\ dpc = "mediaPayload"
    /\ IF IsZero(dec.mediaSec.PayloadLen)
       THEN /\ dec' = [dec EXCEPT !.media = [BundleVersion |-> VersionV1, Items |-> <<>>]]
            /\ DecodeGoto("validate")
            /\ UNCHANGED <<rpos, log>>
       ELSE LET n == dec.mediaSec.PayloadLen
                r == ReadFull(stream, rpos, n)
            IN /\ rpos' = r.pos
               /\ log' = log \o <<Event("alloc", "media", n), Event("read", "media", n)>>
               /\ IF r.err # NoError THEN DecodeReturn(NilDoc, r.err) /\ dec' = dec
                  ELSE DecodeGoto("mediaDecompress")
                       /\ dec' = [dec EXCEPT !.mediaPayload = AsPayload(r.seg)]
    /\ UNCHANGED <<D_Frame>>

D_MediaDecompress ==
    /\ dpc = "mediaDecompress"
    /\ LET d == decompressPayload(compression(dec.mediaSec), dec.mediaSec.SectionFlags,
                                  dec.mediaPayload, dec.limits.MaxMediaUncompressed)
       IN /\ log' = log \o DecompressEvents("media", dec.mediaPayload, d)
          /\ IF d.err # NoError THEN DecodeReturn(NilDoc, d.err) /\ dec' = dec
             ELSE DecodeGoto("mediaGob") /\ dec' = [dec EXCEPT !.mediaGob = d.out]
    /\ UNCHANGED <<D_Frame, rpos>>

D_MediaGob ==
    /\ dpc = "mediaGob"
    /\ LET g == gobDecode(dec.mediaGob, "MediaBundle") IN
          /\ log' = Append(log, Event("gob", "media", U64(dec.mediaGob.len)))
          /\ IF g.err # NoError THEN DecodeReturn(NilDoc, g.err) /\ dec' = dec
             ELSE DecodeGoto("validate") /\ dec' = [dec EXCEPT !.media = g.v]
    /\ UNCHANGED <<D_Frame, rpos>>

\* The last step returning the assembled document together with the
\* validation error.
D_ValidateKeepsDocument ==
    /\ dpc = "validate"
    /\ LET d == [nil |-> FALSE, Metadata |-> dec.metadata,
                 Markdown |-> dec.markdown, Media |-> dec.media]
           err == validateDocument(d, dec.limits, ropts.verifyHashes)
       IN DecodeReturn(d, err)
    /\ UNCHANGED <<D_Frame, rpos, dec, log>>

\* A last step that refuses a reader that still holds bytes.
D_ValidateAtEOF ==
    /\ dpc = "validate"
    /\ LET d == [nil |-> FALSE, Metadata |-> dec.metadata,
                 Markdown |-> dec.markdown, Media |-> dec.media]
           err == validateDocument(d, dec.limits, ropts.verifyHashes)
       IN IF rpos <= Len(stream) THEN DecodeReturn(NilDoc, ErrInvalidPayload)
          ELSE IF err # NoError THEN DecodeReturn(NilDoc, err)
          ELSE DecodeReturn(d, NoError)
    /\ UNCHANGED <<D_Frame, rpos, dec, log>>

D_Validate ==
    /\ dpc = "validate"
    /\ LET d == [nil |-> FALSE, Metadata |-> dec.metadata,
                 Markdown |-> dec.markdown, Media |-> dec.media]
           err == validateDocument(d, dec.limits, ropts.verifyHashes)
       IN IF err # NoError THEN DecodeReturn(NilDoc, err) ELSE DecodeReturn(d, NoError)
    /\ UNCHANGED <<D_Frame, rpos, dec, log>>


----------------------------------------------------------------------------
(* The harness: a caller encodes a document into a writer, the bytes the   *)
(* writer accepted are then read back through Decode.                      *)

\* bytes.NewReader(buf.Bytes()): Decode is given what the writer holds.
OpenFile ==
    /\ epc = "done"
    /\ dpc = "none"
    /\ stream' = w.buf
    /\ dpc' = "idle"
    /\ UNCHANGED <<doc, doc0, first, wopts, epc, enc, w, eerr, tampers, ropts, rpos, dec,
                   dres, derr, log>>

\* An encoded file laid out as Encode wrote it: the fixed header, the
\* metadata block if any, then the two sections.
MdHeaderIdx(s) == IF Len(s) >= 2 /\ s[2].t = "json" THEN 3 ELSE 2
HeaderIdx(s, sec) == IF sec = "markdown" THEN MdHeaderIdx(s) ELSE MdHeaderIdx(s) + 2

Overwrite(b, off, bytes) ==
    [i \in 1..Len(b) |-> IF i >= off /\ i < off + Len(bytes) THEN bytes[i - off + 1] ELSE b[i]]

\* The files that are edited byte by byte, as the tests do with the output
\* of Encode for sampleDoc().
Tamperable ==
    /\ dpc = "idle"
    /\ eerr = NoError
    /\ w.kind = "buffer"
    /\ doc0 \in SampleDocs
    /\ \E c \in {CompNone, CompZIP, CompZSTD, CompLZ4, CompBR} : wopts = DefaultWriteOptions(c)
    /\ <<"file", "truncated">> \notin tampers
    /\ first.ran = "none"

T_Frame == <<doc, doc0, first, wopts, epc, enc, w, eerr, ropts, dpc, rpos, dec, dres, derr, log>>

\* Flip bit k of byte i of the magic: any bit of a file as Encode wrote it,
\* the first or the last bit of a file whose header is already edited.
T_FlipMagicBit ==
    /\ Tamperable
    /\ Cardinality(tampers) < MaxTampers
    /\ \A t \in tampers : t[1] = "header" /\ t[2] # "magic"
    /\ \E i \in 1..8, k \in 0..7 :
         /\ tampers = {} \/ <<i, k>> \in {<<1, 0>>, <<8, 7>>}
         /\ stream' = [stream EXCEPT ![1].b[i] = BitXor(@, 2^k)]
    /\ tampers' = tampers \cup {<<"header", "magic">>}
    /\ UNCHANGED T_Frame

FixedHeaderTampers ==
    {[field |-> "version", off |-> 9, bytes |-> PutUint(v, 2)] : v \in {0, 2, 513}}
    \cup {[field |-> "headerFlags", off |-> 11, bytes |-> PutUint(f, 2)] :
             f \in {0, 1, 65534, 65535}}
    \cup {[field |-> "fixedHdrSize", off |-> 13, bytes |-> U32(v)] : v \in {0, 31, 33}}
    \cup {[field |-> "metadataLength", off |-> 17, bytes |-> b] :
             b \in {U32(1048577), <<255, 255, 255, 255>>}}
    \cup {[field |-> "reserved0", off |-> 21, bytes |-> b] :
             b \in {U32(1), <<0, 0, 0, 128>>}}
    \cup {[field |-> "reserved1", off |-> 25, bytes |-> b] :
             b \in {U64(1), <<0, 0, 0, 0, 0, 0, 0, 128>>}}

\* Overwrite one field of the fixed header with a different value.
T_FixedHeader ==
    /\ Tamperable
    /\ Cardinality(tampers) < MaxTampers
    /\ \A t \in tampers : t[1] = "header" /\ t[2] # "magic"
    /\ \E t \in FixedHeaderTampers :
         /\ <<"header", t.field>> \notin tampers
         /\ Overwrite(stream[1].b, t.off, t.bytes) # stream[1].b
         /\ stream' = [stream EXCEPT ![1].b = Overwrite(@, t.off, t.bytes)]
         /\ tampers' = tampers \cup {<<"header", t.field>>}
    /\ UNCHANGED T_Frame

SectionHeaderTampers ==
    {[field |-> "type", off |-> 1, bytes |-> PutUint(v, 2)] : v \in {0, 1, 2, 3}}
    \cup {[field |-> "flags", off |-> 3, bytes |-> PutUint(f, 2)] :
             f \in {0, 1, 2, 3, 4, 5, 15, 16, 18, 19, 21, 31, 32, 50}}
    \cup {[field |-> "payloadLen", off |-> 5, bytes |-> b] :
             b \in {U64(0), U64(1048576), Shl(U64(1), 40)}}
    \cup {[field |-> "reserved", off |-> 13, bytes |-> b] :
             b \in {U32(1), <<0, 0, 0, 128>>}}

\* A section header edit that Decode's reads still follow segment by segment:
\* the stored length is only raised beyond the end of the file or, for the
\* last section, set to zero; a CompNone payload is not relabelled as a
\* compressed one.
Followable(s, sec, t) ==
    LET hi == HeaderIdx(s, sec)
        sh == parseSectionHeader(Overwrite(s[hi].b, t.off, t.bytes))
    IN /\ t.field = "payloadLen" /\ IsZero(t.bytes) => sec = "media"
       /\ (t.field = "flags" /\ s[hi + 1].p.k = "plain")
             => ~(compression(sh) \in {CompZIP, CompZSTD, CompLZ4, CompBR}
                  /\ hasUncompressedLen(sh))

\* Overwrite one field of one section header with a different value.
T_SectionHeader ==
    /\ Tamperable
    /\ tampers = {}
    /\ \E sec \in {"markdown", "media"}, t \in SectionHeaderTampers :
         LET hi == HeaderIdx(stream, sec) IN
         /\ Followable(stream, sec, t)
         /\ Overwrite(stream[hi].b, t.off, t.bytes) # stream[hi].b
         /\ stream' = [stream EXCEPT ![hi].b = Overwrite(@, t.off, t.bytes)]
         /\ tampers' = {<<sec, t.field>>}
    /\ UNCHANGED T_Frame

\* Put the Media section before the Markdown section.
T_SwapSections ==
    /\ Tamperable
    /\ tampers = {}
    /\ LET i == MdHeaderIdx(stream) IN
       stream' = SubSeq(stream, 1, i - 1)
                   \o <<stream[i + 2], stream[i + 3], stream[i], stream[i + 1]>>
    /\ tampers' = {<<"file", "swap">>}
    /\ UNCHANGED T_Frame

\* Hand-made payloads, as the tests and an adversary build them: for each
\* codec a corrupt stream, a stream that expands to more or to fewer bytes
\* than the prefix declares, a stream whose reader fails after its last byte,
\* a prefix above every ceiling, a payload too short for a prefix; for ZIP
\* the entry-shape violations; for CompNone malformed, truncated and empty
\* plaintexts.
CodecPayloads(c) ==
    { EnvPayload(U64(3), [Stream(c, Junk(0), 7) EXCEPT !.bad = TRUE, !.archiveOK = FALSE]),
      EnvPayload(U64(3), [Stream(c, Junk(5), 20) EXCEPT !.size = U64(3)]),
      EnvPayload(U64(5), [Stream(c, Junk(3), 20) EXCEPT !.size = U64(5)]),
      EnvPayload(U64(3), [Stream(c, Junk(3), 20) EXCEPT !.bad = TRUE]),
      EnvPayload(U64(3), Stream(c, Junk(3), 20)),
      EnvPayload(Shl(U64(1), 40), Stream(c, Junk(0), 20)),
      ShortPayload(3) }

ZipShapePayloads ==
    { EnvPayload(U64(3), [Stream(CompZIP, Junk(3), 40) EXCEPT !.entries = n]) : n \in {0, 2} }
    \cup { EnvPayload(U64(3), [Stream(CompZIP, Junk(3), 20) EXCEPT !.name = "other.gob"]),
           EnvPayload(U64(3), [Stream(CompZIP, Junk(3), 20) EXCEPT !.dir = TRUE]),
           EnvPayload(U64(3), [Stream(CompZIP, Junk(3), 20) EXCEPT !.size = U64(4)]),
           EnvPayload(U64(3), [Stream(CompZIP, Junk(3), 20) EXCEPT !.openErr = TRUE]) }

CraftedSections ==
    UNION { { [flags |-> BitOr(c, sectionFlagHasUncompressedLen), p |-> p] :
                 p \in CodecPayloads(c) } : c \in {CompZIP, CompZSTD, CompLZ4, CompBR} }
    \cup { [flags |-> BitOr(CompZIP, sectionFlagHasUncompressedLen), p |-> p] :
              p \in ZipShapePayloads }
    \cup { [flags |-> CompNone, p |-> PlainPayload(Junk(n))] : n \in {0, 1, 100} }

\* A stream holds no empty segment.
DropEmpty(s) == SelectSeq(s, LAMBDA seg : SegLen(seg) > 0)

\* Replace one section by a hand-made one: its flags, its stored length and
\* its payload bytes.
T_ReplaceSection ==
    /\ Tamperable
    /\ tampers = {}
    /\ \E sec \in {"markdown", "media"}, cs \in CraftedSections :
         LET hi == HeaderIdx(stream, sec)
             sh == [ SectionType |-> IF sec = "markdown" THEN SectionMarkdown ELSE SectionMedia,
                     SectionFlags |-> cs.flags,
                     PayloadLen |-> U64(payloadLen(cs.p)),
                     Reserved |-> U32(0) ]
         IN
         /\ stream' = DropEmpty([stream EXCEPT ![hi] = BytesSeg(writeSectionHeaderBytes(sh)),
                                               ![hi + 1] = PayloadSeg(cs.p)])
         /\ tampers' = {<<sec, "payload">>}
    /\ UNCHANGED T_Frame

\* The JSON values other than an object, and a text that is no JSON at all.
NonObjectKinds == {"null", "array", "string", "number", "boolean"}

\* Replace the metadata block by another text of the same length: a JSON
\* value that is not an object, or bytes that are not JSON.  The file is as
\* Encode wrote it, or has its header flags edited.
T_ReplaceMetadata ==
    /\ Tamperable
    /\ tampers \in {{}, {<<"header", "headerFlags">>}}
    /\ Cardinality(tampers) < MaxTampers
    /\ Len(stream) >= 2 /\ stream[2].t = "json"
    /\ \E k \in NonObjectKinds \cup {"invalid"} :
         stream' = [stream EXCEPT ![2] = JSONSeg(JSONText(stream[2].js.len, k, ""))]
    /\ tampers' = tampers \cup {<<"file", "metadata">>}
    /\ UNCHANGED T_Frame

\* The documents whose files are truncated: sampleDoc(), and two large files
\* that each pass validation.
TruncatedDocs ==
    SampleDocs \cup {Document(NilMetadata, <<MarkdownFile(PathA, Big), MarkdownFile(PathB, Big)>>, <<>>)}

\* data[:n] for a file Encode wrote in full (the loops of
\* TestDecode_TruncatedInputs and the decode_edge tests): the cut falls at
\* the start of a block of the file, after its first byte or before its last.
T_Truncate ==
    /\ dpc = "idle" /\ eerr = NoError /\ w.kind = "buffer"
    /\ first.ran = "none"
    /\ doc0 \in TruncatedDocs
    /\ \E c \in {CompNone, CompZIP, CompZSTD, CompLZ4, CompBR} : wopts = DefaultWriteOptions(c)
    /\ tampers = {}
    /\ \E k \in 1..Len(stream) :
         \E keep \in {0, 1, SegLen(stream[k]) - 1} :
            /\ keep < SegLen(stream[k])
            /\ stream' = SubSeq(stream, 1, k - 1)
                            \o IF keep = 0 THEN <<>> ELSE <<CutSeg(stream[k], keep)>>
    /\ tampers' = {<<"file", "truncated">>}
    /\ UNCHANGED T_Frame

\* No earlier run to compare with.
NoRun ==
    [ ran |-> "none", doc0 |-> NilDoc, eerr |-> "pending", buf |-> <<>>,
      stream |-> <<>>, ropts |-> DefaultReadOptions, derr |-> "pending", dres |-> NilDoc ]

\* Decode has returned for a file as Encode wrote it: keep its outcome and
\* decode the file once more, with the same options, after one of the two
\* edits below.
DecodeAgain ==
    /\ dpc = "done" /\ first.ran = "none" /\ tampers = {}
    /\ eerr = NoError /\ w.kind = "buffer" /\ doc0 \in SampleDocs
    /\ \E c \in {CompNone, CompZIP, CompZSTD, CompLZ4, CompBR} : wopts = DefaultWriteOptions(c)
    /\ first' = [ ran |-> "decode", doc0 |-> doc0, eerr |-> eerr, buf |-> w.buf,
                  stream |-> stream, ropts |-> ropts, derr |-> derr, dres |-> dres ]
    /\ dpc' = "idle" /\ rpos' = 1 /\ dec' = DecodeLocals
    /\ dres' = NilDoc /\ derr' = "pending" /\ log' = <<>>
    /\ UNCHANGED <<doc, doc0, wopts, epc, enc, w, eerr, stream, tampers, ropts>>

\* append(data, extra...): bytes after the end of the Media payload.
TrailingBytes == {BytesSeg(<<0>>), BytesSeg(Magic), PartSeg(4096)}

T_AppendBytes ==
    /\ dpc = "idle" /\ first.ran = "decode" /\ tampers = {}
    /\ \E seg \in TrailingBytes : stream' = Append(stream, seg)
    /\ tampers' = {<<"file", "appended">>}
    /\ UNCHANGED T_Frame

\* Flag bits without a meaning in version 1: bits 1..15 of HeaderFlags,
\* bits 5..15 of SectionFlags.
UnknownFlagBits(sec) ==
    IF sec = "header" THEN {2, 65534} ELSE {32, 65504}

\* Set unknown flag bits in the fixed header or in a section header.
T_UnknownFlags ==
    /\ dpc = "idle" /\ first.ran = "decode"
    /\ \E sec \in {"header", "markdown", "media"} :
         LET i   == IF sec = "header" THEN 1 ELSE HeaderIdx(stream, sec)
             off == IF sec = "header" THEN 11 ELSE 3
             old == Uint16(SubSeq(stream[i].b, off, off + 1))
         IN /\ tampers \subseteq {<<"header", "unknownFlags">>,
                                   <<"markdown", "unknownFlags">>,
                                   <<"media", "unknownFlags">>}
            /\ <<sec, "unknownFlags">> \notin tampers
            /\ \E bits \in UnknownFlagBits(sec) :
                  stream' = [stream EXCEPT ![i].b =
                                Overwrite(@, off, PutUint(BitOr(old, bits), 2))]
            /\ tampers' = tampers \cup {<<sec, "unknownFlags">>}
    /\ UNCHANGED T_Frame

\* Encode(wr, d, options...) is about to run; nothing has been decoded yet.
Start(d, o, wr) ==
    /\ doc = d
    /\ doc0 = d
    /\ first = NoRun
    /\ wopts = o
    /\ w = wr
    /\ epc = "begin"
    /\ enc = EncodeLocals
    /\ eerr = "pending"
    /\ stream = <<>>
    /\ tampers = {}
    /\ ropts = DefaultReadOptions
    /\ dpc = "none"
    /\ rpos = 1
    /\ dec = DecodeLocals
    /\ dres = NilDoc
    /\ derr = "pending"
    /\ log = <<>>

\* Documents of small files, the ones written under custom limits.
SmallDocs ==
    {d \in Docs \ {NilDoc} :
        /\ d.Metadata \in {NilMetadata, SmallMetadata}
        /\ \A i \in 1..Len(d.Markdown.Files) : d.Markdown.Files[i].Content = Hello}

Init ==
    \E d \in Docs, o \in WriteOptionSet, wr \in Writers :
       /\ wr = BufferWriter \/ d \in SampleDocs
       /\ o.limits = defaultLimits \/ d \in SmallDocs
       /\ Start(d, o, wr)

Next ==
    \/ E_Begin
    \/ E_Validate
    \/ E_Serialize
    \/ E_WriteFixedHeader
    \/ E_WriteMetadata
    \/ E_WriteMarkdownHeader
    \/ E_WriteMarkdownPayload
    \/ E_WriteMediaHeader
    \/ E_WriteMediaPayload
    \/ OpenFile
    \/ T_FlipMagicBit
    \/ T_FixedHeader
    \/ T_SectionHeader
    \/ T_SwapSections
    \/ T_ReplaceSection
    \/ T_ReplaceMetadata
    \/ T_Truncate
    \/ DecodeAgain
    \/ T_AppendBytes
    \/ T_UnknownFlags
    \/ D_Begin
    \/ D_FixedHeader
    \/ D_Metadata
    \/ D_MarkdownHeader
    \/ D_MarkdownPayload
    \/ D_MarkdownDecompress
    \/ D_MarkdownGob
    \/ D_MediaHeader
    \/ D_MediaPayload
    \/ D_MediaDecompress
    \/ D_MediaGob
    \/ D_Validate

Spec == Init /\ [][Next]_vars

----------------------------------------------------------------------------
(* Limits resolution: sampleDoc() is written and read back under every     *)
(* Limits value whose fields are zero or not, the reader being given the   *)
(* writer's limits or one of the read options above.                       *)

LimitsSet ==
    [ MaxMetadataLen            : {U32(0), U32(1000)},
      MaxMarkdownSectionLen     : {U64(0), U64(1000)},
      MaxMediaSectionLen        : {U64(0), U64(1000)},
      MaxMarkdownUncompressed   : {U64(0), U64(1000)},
      MaxMediaUncompressed      : {U64(0), U64(1000)},
      MaxMarkdownFiles          : {0, 7},
      MaxMediaItems             : {0, 7, -1},
      MaxSingleMarkdownFileSize : {U64(0), U64(1000)},
      MaxSingleMediaSize        : {U64(0), U64(1000)} ]

LimitsInit ==
    \E l \in LimitsSet :
       Start(Document(SmallMetadata, <<MarkdownFile(PathA, Hello)>>,
                      <<MediaItem(<<"l", "o", "g", "o">>, Png, ZeroSHA)>>),
             writeConfig(l, TRUE, TRUE, CompNone, CompNone), BufferWriter)

LimitsNext ==
    \/ E_Begin
    \/ E_Validate
    \/ E_Serialize
    \/ E_WriteFixedHeader
    \/ E_WriteMetadata
    \/ E_WriteMarkdownHeader
    \/ E_WriteMarkdownPayload
    \/ E_WriteMediaHeader
    \/ E_WriteMediaPayload
    \/ OpenFile
    \/ D_Begin
    \/ D_FixedHeader
    \/ D_Metadata
    \/ D_MarkdownHeader
    \/ D_MarkdownPayload
    \/ D_MarkdownDecompress
    \/ D_MarkdownGob
    \/ D_MediaHeader
    \/ D_MediaPayload
    \/ D_MediaDecompress
    \/ D_MediaGob
    \/ D_Validate

LimitsSpec == LimitsInit /\ [][LimitsNext]_vars

----------------------------------------------------------------------------
(* The validator: Encode is given documents that break the rules of        *)
(* validateDocument one or several at a time, under default and custom     *)
(* limits, with and without hash verification.                             *)

MaxCheckedItems == 2

BadPath == <<"/", "a">>
BlankID == <<" ">>

CheckedFiles ==
    {MarkdownFile(p, c) : p \in {PathA, PathB, BadPath}, c \in {Hello, Png}}

CheckedItems ==
    {[MediaItem(id, Png, h) EXCEPT !.Path = p] :
        id \in {<<"l", "o", "g", "o">>, BlankID},
        p \in {<<>>, <<".", ".", "/", "x">>},
        h \in {ZeroSHA, sha256Sum(Hello)}}

\* Documents whose Markdown bundle varies beside a few Media bundles, and
\* documents whose Media bundle varies beside a few Markdown bundles.
CheckedDocs ==
    {NilDoc}
    \cup { [Document(NilMetadata, f, i) EXCEPT !.Markdown.BundleVersion = bv,
                                               !.Markdown.RootPath = rp,
                                               !.Media.BundleVersion = mv] :
             f \in SeqsUpTo(CheckedFiles, MaxFiles),
             bv \in {VersionV1, 0}, rp \in {<<>>, <<"d">>, BadPath},
             mv \in {VersionV1, 2},
             i \in {<<>>, <<MediaItem(BlankID, Png, ZeroSHA)>>} }
    \cup { [Document(SmallMetadata, <<MarkdownFile(PathA, c)>>, i)
               EXCEPT !.Media.BundleVersion = mv] :
             c \in {Hello, Png}, mv \in {VersionV1, 0},
             i \in SeqsUpTo(CheckedItems, MaxCheckedItems) }

ValidateInit ==
    \E d \in CheckedDocs, l \in {zeroLimits, SmallCountLimit, SmallSizeLimit},
       v \in BOOLEAN :
       Start(d, writeConfig(l, v, FALSE, CompNone, CompNone), BufferWriter)

ValidateNext ==
    \/ E_Begin
    \/ E_Validate
    \/ E_Serialize
    \/ E_WriteFixedHeader
    \/ E_WriteMetadata
    \/ E_WriteMarkdownHeader
    \/ E_WriteMarkdownPayload
    \/ E_WriteMediaHeader
    \/ E_WriteMediaPayload

ValidateSpec == ValidateInit /\ [][ValidateNext]_vars

----------------------------------------------------------------------------
(* validateContainerPath on its own: Encode of a document whose only       *)
(* defect can be the path of its single Markdown file.  The paths are all  *)
(* strings of up to MaxPathLen characters of PathAlphabet, and the paths   *)
(* of TestValidateContainerPath.                                           *)

MaxPathLen == 3

PathAlphabet == {"a", "/", ".", "\\", " "}

ListedAccepted == {<<"d", "o", "c", "s", "/", "r", "e", "a", "d", "m", "e", ".", "m", "d">>}

ListedRejected ==
    { <<>>, <<"/", "a", "b", "s">>, <<"a", "\\", "b">>, <<"a", "/", "/", "b">>,
      <<"a", "/", ".", "/", "b">>, <<"a", "/", ".", ".", "/", "b">>, <<".">>,
      <<".", ".">>, <<".", ".", "/", "x">>, <<"a", "/">> }

Paths == SeqsUpTo(PathAlphabet, MaxPathLen) \cup ListedAccepted \cup ListedRejected

PathInit ==
    \E p \in Paths, v \in BOOLEAN :
       Start(Document(NilMetadata, <<MarkdownFile(p, Hello)>>, <<>>),
             writeConfig(defaultLimits, v, FALSE, CompNone, CompNone), BufferWriter)

PathSpec == PathInit /\ [][ValidateNext]_vars

----------------------------------------------------------------------------
(* Two documents that differ only in MediaRefs: Encode and Decode run for  *)
(* sampleDoc() without references, then again, with the same options, for  *)
(* the same document with references given to its first file.              *)

LogoID == <<"l", "o", "g", "o">>

RefLists == {<<>>, <<LogoID>>, <<<<"x">>>>, <<LogoID, <<"x">>>>}

WithMediaRefs(d, refs) == [d EXCEPT !.Markdown.Files[1].MediaRefs = refs]

\* Ceilings equal to the size of the serialized Markdown bundle of
\* sampleDoc() without references.
TightMarkdownLimit ==
    LET n == gobLen(Document(NilMetadata, <<MarkdownFile(PathA, Hello)>>, <<>>).Markdown,
                    "MarkdownBundle")
    IN [zeroLimits EXCEPT !.MaxMarkdownSectionLen = U64(n),
                          !.MaxMarkdownUncompressed = U64(n)]

RefsInit ==
    \E d \in SampleDocs \cup {Document(NilMetadata, <<MarkdownFile(BadPath, Hello)>>, <<>>)},
       l \in {defaultLimits, TightMarkdownLimit}, c \in {CompNone, CompZSTD} :
       /\ l = defaultLimits \/ d \in SampleDocs
       /\ Start(d, writeConfig(l, TRUE, TRUE, c, c), BufferWriter)

\* The first pair of calls has returned: keep its outcome and call Encode
\* with the other document and a fresh buffer.
EncodeOther ==
    /\ epc = "done" /\ dpc = "done" /\ first.ran = "none"
    /\ first' = [ ran |-> "refs", doc0 |-> doc0, eerr |-> eerr, buf |-> w.buf,
                  stream |-> stream, ropts |-> ropts, derr |-> derr, dres |-> dres ]
    /\ \E refs \in RefLists :
         /\ doc' = WithMediaRefs(doc0, refs)
         /\ doc0' = WithMediaRefs(doc0, refs)
    /\ w' = BufferWriter
    /\ epc' = "begin" /\ enc' = EncodeLocals /\ eerr' = "pending"
    /\ stream' = <<>> /\ dpc' = "none" /\ rpos' = 1 /\ dec' = DecodeLocals
    /\ dres' = NilDoc /\ derr' = "pending" /\ log' = <<>>
    /\ UNCHANGED <<wopts, tampers, ropts>>

RefsNext ==
    \/ E_Begin
    \/ E_Validate
    \/ E_Serialize
    \/ E_WriteFixedHeader
    \/ E_WriteMetadata
    \/ E_WriteMarkdownHeader
    \/ E_WriteMarkdownPayload
    \/ E_WriteMediaHeader
    \/ E_WriteMediaPayload
    \/ OpenFile
    \/ D_Begin
    \/ D_FixedHeader
    \/ D_Metadata
    \/ D_MarkdownHeader
    \/ D_MarkdownPayload
    \/ D_MarkdownDecompress
    \/ D_MarkdownGob
    \/ D_MediaHeader
    \/ D_MediaPayload
    \/ D_MediaDecompress
    \/ D_MediaGob
    \/ D_Validate
    \/ EncodeOther

RefsSpec == RefsInit /\ [][RefsNext]_vars

----------------------------------------------------------------------------
(* Concurrent calls.  Encode(&buf, doc, ...) and then Decode of its output *)
(* run alone; then the same two calls, Encode with its own copy of the     *)
(* document and a fresh buffer, Decode with its own reader over the same   *)
(* bytes, run at once: their steps interleave in every order.              *)

ConcInit ==
    \E d \in SampleDocs, l \in {defaultLimits, SmallSectionLimit, SmallCountLimit},
       c \in {CompNone, CompZSTD, CompZIP} :
       Start(d, writeConfig(l, TRUE, TRUE, c, c), BufferWriter)

\* go Encode(...); go Decode(...)
RunConcurrently ==
    /\ epc = "done" /\ dpc = "done" /\ first.ran = "none"
    /\ first' = [ ran |-> "alone", doc0 |-> doc0, eerr |-> eerr, buf |-> w.buf,
                  stream |-> stream, ropts |-> ropts, derr |-> derr, dres |-> dres ]
    /\ doc' = doc0
    /\ w' = BufferWriter
    /\ epc' = "begin" /\ enc' = EncodeLocals /\ eerr' = "pending"
    /\ dpc' = "idle" /\ rpos' = 1 /\ dec' = DecodeLocals
    /\ dres' = NilDoc /\ derr' = "pending" /\ log' = <<>>
    /\ UNCHANGED <<doc0, wopts, stream, tampers, ropts>>

ConcNext ==
    \/ E_Begin
    \/ E_Validate
    \/ E_Serialize
    \/ E_WriteFixedHeader
    \/ E_WriteMetadata
    \/ E_WriteMarkdownHeader
    \/ E_WriteMarkdownPayload
    \/ E_WriteMediaHeader
    \/ E_WriteMediaPayload
    \/ OpenFile
    \/ D_Begin
    \/ D_FixedHeader
    \/ D_Metadata
    \/ D_MarkdownHeader
    \/ D_MarkdownPayload
    \/ D_MarkdownDecompress
    \/ D_MarkdownGob
    \/ D_MediaHeader
    \/ D_MediaPayload
    \/ D_MediaDecompress
    \/ D_MediaGob
    \/ D_Validate
    \/ RunConcurrently

ConcSpec == ConcInit /\ [][ConcNext]_vars

----------------------------------------------------------------------------
(* Properties.                                                             *)

DefaultCodecs == {CompNone, CompZIP, CompZSTD, CompLZ4, CompBR}

\* Encode ran under default options with one codec for both sections, into a
\* buffer, and Decode read the untouched bytes under default options.
DefaultRoundTrip ==
    /\ dpc = "done"
    /\ tampers = {}
    /\ w.kind = "buffer"
    /\ \E c \in DefaultCodecs : wopts = DefaultWriteOptions(c)
    /\ ropts = DefaultReadOptions

LastEvent == log[Len(log)]

EventsOf(evs, what) == {i \in 1..Len(log) : log[i].ev \in evs /\ log[i].what = what}

StoredCeiling(what) ==
    CASE what = "metadata" -> Widen(dec.limits.MaxMetadataLen, 8)
      [] what = "markdown" -> dec.limits.MaxMarkdownSectionLen
      [] what = "media"    -> dec.limits.MaxMediaSectionLen

UncompressedCeiling(what) ==
    IF what = "markdown" THEN dec.limits.MaxMarkdownUncompressed
    ELSE dec.limits.MaxMediaUncompressed

\* C1: a Document that passes validation (and whose metadata fits the metadata
\* ceiling), encoded under default options with any one of the five codecs
\* for both sections and decoded under default options, comes back without
\* error and equal to the input with every zero SHA256 replaced by the digest
\* of the item's Data.
C1_RoundTrip ==
    ( /\ DefaultRoundTrip
      /\ validateDocument(doc0, defaultLimits, TRUE) = NoError
      /\ doc0.Metadata # HugeMetadata )
    => ( /\ eerr = NoError
         /\ derr = NoError
         /\ dres = autoPopulate(doc0) )

\* A valid document did make the round trip.
C1_Witness ==
    /\ DefaultRoundTrip
    /\ derr = NoError
    /\ dres = autoPopulate(doc0)
    /\ Len(doc0.Media.Items) > 0

\* C2: every buffer Decode allocates has a length within the ceiling of the
\* field that sizes it, every codec is called with a declared length within
\* the uncompressed ceiling, and a length above its ceiling ends Decode with
\* LimitExceeded with no allocation for it and no codec call.
C2_LimitsBeforeAllocation ==
    /\ \A i \in 1..Len(log) :
         /\ log[i].ev = "alloc" => ~WideGt(log[i].n, StoredCeiling(log[i].what))
         /\ log[i].ev = "codec" => ~WideGt(log[i].n, UncompressedCeiling(log[i].what))
    /\ ( /\ dec.h.Magic = Magic
         /\ dec.h.FixedHdrSize = U32(32) /\ dec.h.Version = 1
         /\ IsZero(dec.h.Reserved0) /\ IsZero(dec.h.Reserved1)
         /\ WideGt(Widen(dec.h.MetadataLength, 8), StoredCeiling("metadata")) )
       => (dpc = "done" /\ derr = ErrLimitExceeded /\ EventsOf({"alloc"}, "metadata") = {})
    /\ ( /\ validateSectionHeader(dec.mdSec, SectionMarkdown) = NoError
         /\ WideGt(dec.mdSec.PayloadLen, StoredCeiling("markdown")) )
       => (dpc = "done" /\ derr = ErrLimitExceeded /\ EventsOf({"alloc"}, "markdown") = {})
    /\ ( /\ validateSectionHeader(dec.mediaSec, SectionMedia) = NoError
         /\ WideGt(dec.mediaSec.PayloadLen, StoredCeiling("media")) )
       => (dpc = "done" /\ derr = ErrLimitExceeded /\ EventsOf({"alloc"}, "media") = {})
    /\ \A what \in {"markdown", "media"} :
         LET p == IF what = "markdown" THEN dec.mdPayload ELSE dec.mediaPayload
             sh == IF what = "markdown" THEN dec.mdSec ELSE dec.mediaSec
         IN ( /\ EventsOf({"decompress"}, what) # {}
              /\ sh.SectionFlags % 16 # 0
              /\ p.k = "env"
              /\ WideGt(p.prefix, UncompressedCeiling(what)) )
            => ( /\ dpc = "done" /\ derr = ErrLimitExceeded
                 /\ EventsOf({"codec"}, what) = {} )

\* A declared uncompressed length above the ceiling was refused.
C2_Witness ==
    /\ dpc = "done"
    /\ derr = ErrLimitExceeded
    /\ Len(log) > 0
    /\ LastEvent.ev = "decompress"
    /\ WideGt(dec.mediaPayload.prefix, UncompressedCeiling("media"))

\* C3: when Decode succeeds (here under the default limits), the plaintext of
\* each section is no longer than the uncompressed ceiling of that section,
\* whatever the compression id.
C3_PlaintextWithinCeiling ==
    (dpc = "done" /\ derr = NoError /\ ropts.limits = defaultLimits)
    => ( /\ ~WideGt(U64(dec.mdGob.len), UncompressedCeiling("markdown"))
         /\ ~WideGt(U64(dec.mediaGob.len), UncompressedCeiling("media")) )

\* C4: for a non-None codec, decompressPayload succeeds only when the stream
\* really expands to the declared number of bytes.
C4_ExactLength ==
    /\ (dpc = "mdGob" /\ compression(dec.mdSec) # CompNone)
       => U64(AsStream(dec.mdPayload.z, compression(dec.mdSec)).out.len)
            = dec.mdPayload.prefix
    /\ (dpc = "mediaGob" /\ compression(dec.mediaSec) # CompNone)
       => U64(AsStream(dec.mediaPayload.z, compression(dec.mediaSec)).out.len)
            = dec.mediaPayload.prefix

\* C5: a failure of decompressPayload that is no ceiling violation is
\* InvalidPayload.
C5_DecompressErrorsAreInvalidPayload ==
    ( /\ dpc = "done"
      /\ Len(log) > 0
      /\ LastEvent.ev \in {"decompress", "codec"}
      /\ derr # ErrLimitExceeded )
    => derr = ErrInvalidPayload

\* The plaintext handed to gobDecode for a section.
Plaintext(what) == IF what = "markdown" THEN dec.mdGob ELSE dec.mediaGob

\* C6: when the plaintext of a section is malformed, truncated or empty for
\* the payload codec, Decode fails with InvalidPayload and returns no
\* Document.
C6_MalformedPlaintextIsInvalidPayload ==
    ( /\ dpc = "done"
      /\ Len(log) > 0
      /\ LastEvent.ev = "gob"
      /\ Plaintext(LastEvent.what).k = "junk" )
    => (derr = ErrInvalidPayload /\ dres = NilDoc)

\* C7: after one bit of the magic of an encoded file is flipped, Decode
\* fails with InvalidMagic, whatever else in the header was changed.
C7_FlippedMagicBit ==
    (dpc = "done" /\ <<"header", "magic">> \in tampers)
    => (derr = ErrInvalidMagic /\ dres = NilDoc)

\* Decode saw a file whose only change is one flipped bit of the last magic
\* byte.
C7_Witness ==
    /\ dpc = "done"
    /\ tampers = {<<"header", "magic">>}
    /\ stream[1].b[8] # Magic[8]
    /\ derr = ErrInvalidMagic

C9_ReservedAndOrder ==
    (dpc = "done" /\ ropts.limits = defaultLimits)
    => ( /\ tampers \in {{<<"header", "reserved0">>}, {<<"header", "reserved1">>},
                         {<<"header", "reserved0">>, <<"header", "reserved1">>}}
              => derr = ErrInvalidHeader
         /\ tampers \in {{<<"markdown", "reserved">>}, {<<"media", "reserved">>},
                         {<<"file", "swap">>}}
              => derr = ErrInvalidSection
         /\ (tampers = {<<"markdown", "type">>} /\ dec.mdSec.SectionType = SectionMedia)
              => derr = ErrInvalidSection
         /\ (tampers = {<<"media", "type">>} /\ dec.mediaSec.SectionType = SectionMarkdown)
              => derr = ErrInvalidSection )

\* Decode refused a Media section header whose reserved field is nonzero.
C9_Witness ==
    /\ dpc = "done"
    /\ tampers = {<<"media", "reserved">>}
    /\ ~IsZero(dec.mediaSec.Reserved)
    /\ derr = ErrInvalidSection

\* SectionFlags whose compression id is not 0..4, or is 0 with bit 0x0010
\* set, or is 1..4 with that bit clear.
FlagsInconsistent(sh) ==
    LET id  == sh.SectionFlags % 16
        bit == (sh.SectionFlags \div 16) % 2 = 1
    IN id > 4 \/ (id = 0 /\ bit) \/ (id \in 1..4 /\ ~bit)

\* C10: a section header with inconsistent compression flags ends Decode
\* with InvalidSection before any byte of that section's payload is
\* allocated, read, decompressed or decoded.
C10_FlagsCheckedBeforePayload ==
    /\ FlagsInconsistent(dec.mdSec)
       => ( /\ dpc = "done" /\ derr = ErrInvalidSection
            /\ EventsOf({"alloc", "read", "decompress", "codec", "gob"}, "markdown") = {} )
    /\ FlagsInconsistent(dec.mediaSec)
       => ( /\ dpc = "done" /\ derr = ErrInvalidSection
            /\ EventsOf({"alloc", "read", "decompress", "codec", "gob"}, "media") = {} )

\* Decode refused a Media section header with an unknown compression id after
\* it had decoded the Markdown section.
C10_Witness ==
    /\ dpc = "done"
    /\ dec.mediaSec.SectionFlags % 16 > 4
    /\ EventsOf({"gob"}, "markdown") # {}
    /\ derr = ErrInvalidSection

\* The file Decode is reading holds a metadata block, and Decode has read it
\* after a fixed header that passed every check.
MetadataRead ==
    /\ dpc \notin {"none", "idle", "fixedHeader", "metadata"}
    /\ checkFixedHeader(dec.h, dec.limits) = NoError
    /\ ~IsZero(dec.h.MetadataLength)
    /\ Len(stream) >= 2 /\ stream[2].t = "json"
    /\ Widen(dec.h.MetadataLength, 8) = U64(stream[2].js.len)

\* C11: when the metadata length is greater than 0 and the metadata bytes
\* parse as a JSON value that is not an object (null, array, string, number,
\* boolean), Decode fails with InvalidHeader.
C11_NonObjectMetadataIsInvalidHeader ==
    (dpc = "done" /\ MetadataRead /\ stream[2].js.kind \in NonObjectKinds)
        => derr = ErrInvalidHeader

\* C11, the case the claim is about: a file whose metadata block is a JSON
\* array, flagged as metadata, has been decoded.
C11_Witness ==
    /\ dpc = "done" /\ MetadataRead /\ stream[2].js.kind = "array"
    /\ BitAnd(dec.h.HeaderFlags, HeaderFlagMetadataJSON) # 0

\* C12: when the metadata length is greater than 0, the metadata bytes are
\* all present and header flag bit 0x0001 is not set, Decode fails with
\* InvalidHeader, whatever the metadata bytes and the other flag bits are.
C12_MetadataWithoutFlag ==
    (dpc = "done" /\ MetadataRead
       /\ BitAnd(dec.h.HeaderFlags, HeaderFlagMetadataJSON) = 0)
        => (derr = ErrInvalidHeader /\ dres = NilDoc /\ LastEvent.what = "metadata")

\* C12, the case: a file with a metadata block and the metadata flag cleared
\* has been decoded.
C12_Witness ==
    /\ dpc = "done" /\ MetadataRead
    /\ dec.h.HeaderFlags = 0
    /\ stream[2].js.kind = "object"
    /\ derr = ErrInvalidHeader

\* The document d, written with the options wo, exceeds one of the nine
\* ceilings of wo's limits after zero fields took the defaults.
ExceedsWriteLimits(d, wo) ==
    LET l     == withDefaults(wo.limits)
        mdGob == gobEncode(d.Markdown, "MarkdownBundle")
        mediaGob == gobEncode(d.Media, "MediaBundle")
        md    == compressPayload(wo.mdCompression, mdGob)
        media == compressPayload(wo.mediaCompression, mediaGob)
    IN \/ ~d.Metadata.nil /\ WideGt(U32(d.Metadata.jsonLen), l.MaxMetadataLen)
       \/ WideGt(U64(payloadLen(md.payload)), l.MaxMarkdownSectionLen)
       \/ WideGt(U64(payloadLen(media.payload)), l.MaxMediaSectionLen)
       \/ WideGt(U64(mdGob.len), l.MaxMarkdownUncompressed)
       \/ WideGt(U64(mediaGob.len), l.MaxMediaUncompressed)
       \/ Len(d.Markdown.Files) > l.MaxMarkdownFiles
       \/ Len(d.Media.Items) > l.MaxMediaItems
       \/ \E i \in 1..Len(d.Markdown.Files) :
             WideGt(U64(d.Markdown.Files[i].Content.len), l.MaxSingleMarkdownFileSize)
       \/ \E i \in 1..Len(d.Media.Items) :
             WideGt(U64(d.Media.Items[i].Data.len), l.MaxSingleMediaSize)

\* C13: Encode called with WithWriteLimits(l) fails with LimitExceeded
\* whenever the document exceeds any of the nine ceilings of l.  Stated for
\* limits other than the defaults, documents that are valid but for their
\* size, known compression ids and a writer that takes every byte.
C13_WriteLimitsEnforced ==
    (epc = "done" /\ ~doc.nil /\ w.kind = "buffer"
       /\ wopts.limits # defaultLimits
       /\ wopts.mdCompression \in DefaultCodecs /\ wopts.mediaCompression \in DefaultCodecs
       /\ validateDocument(doc, defaultLimits, wopts.verifyHashes) = NoError
       /\ ExceedsWriteLimits(doc, wopts))
        => eerr = ErrLimitExceeded

\* C13, the case: Encode has run with custom limits on a document above one
\* of their ceilings.
C13_Witness ==
    /\ epc = "done" /\ ~doc.nil /\ w.kind = "buffer"
    /\ wopts.limits = SmallSectionLimit
    /\ ExceedsWriteLimits(doc, wopts)

\* The documented resolution of a Limits value: a zero field takes 1 MiB
\* (metadata), 1 GiB and 4 GiB (stored sections), 256 MiB and 2 GiB
\* (uncompressed), 10,000 and 10,000 (counts), 256 MiB and 512 MiB (single
\* file and item); a nonzero field is kept.
DocumentedLimits(l) ==
    LET pick(x, zero, dflt) == IF x = zero THEN dflt ELSE x IN
    [ MaxMetadataLen            |-> pick(l.MaxMetadataLen, U32(0), U32(1048576)),
      MaxMarkdownSectionLen     |-> pick(l.MaxMarkdownSectionLen, U64(0), <<0, 0, 0, 64, 0, 0, 0, 0>>),
      MaxMediaSectionLen        |-> pick(l.MaxMediaSectionLen, U64(0), <<0, 0, 0, 0, 1, 0, 0, 0>>),
      MaxMarkdownUncompressed   |-> pick(l.MaxMarkdownUncompressed, U64(0), U64(268435456)),
      MaxMediaUncompressed      |-> pick(l.MaxMediaUncompressed, U64(0), <<0, 0, 0, 128, 0, 0, 0, 0>>),
      MaxMarkdownFiles          |-> pick(l.MaxMarkdownFiles, 0, 10000),
      MaxMediaItems             |-> pick(l.MaxMediaItems, 0, 10000),
      MaxSingleMarkdownFileSize |-> pick(l.MaxSingleMarkdownFileSize, U64(0), U64(268435456)),
      MaxSingleMediaSize        |-> pick(l.MaxSingleMediaSize, U64(0), U64(536870912)) ]

NoZeroCeiling(l) ==
    /\ \A f \in {"MaxMetadataLen", "MaxMarkdownSectionLen", "MaxMediaSectionLen",
                  "MaxMarkdownUncompressed", "MaxMediaUncompressed",
                  "MaxSingleMarkdownFileSize", "MaxSingleMediaSize"} : ~IsZero(l[f])
    /\ l.MaxMarkdownFiles # 0 /\ l.MaxMediaItems # 0

\* C14: withDefaults replaces exactly the zero fields of a Limits value by
\* the documented defaults and keeps every nonzero field; once Encode has
\* applied its options and whenever Decode is past its options, the limits
\* every check uses are that resolution of the limits given, with no zero
\* ceiling.
C14_LimitsResolved ==
    /\ epc # "begin" =>
          /\ enc.limits = DocumentedLimits(wopts.limits)
          /\ NoZeroCeiling(enc.limits)
    /\ dpc \notin {"none", "idle"} =>
          /\ dec.limits = DocumentedLimits(ropts.limits)
          /\ NoZeroCeiling(dec.limits)

\* C14, the case: Encode and Decode have both run under limits with a zero
\* metadata ceiling, a zero item count ceiling and a nonzero file count
\* ceiling.
C14_Witness ==
    /\ epc = "done" /\ dpc = "done"
    /\ wopts.limits.MaxMetadataLen = U32(0) /\ wopts.limits.MaxMediaItems = 0
    /\ wopts.limits.MaxMarkdownFiles = 7
    /\ wopts.limits.MaxSingleMediaSize = U64(1000)
    /\ ropts.limits = wopts.limits
    /\ enc.limits.MaxMetadataLen = U32(1048576) /\ dec.limits.MaxMarkdownFiles = 7

\* One check of the validator as the documentation lists it: whether the
\* document breaks it, and the error it stands for.
Check(fails, kind, msg) == [fails |-> fails, kind |-> kind, msg |-> msg]

RECURSIVE Flatten(_, _)
Flatten(ss, i) == IF i > Len(ss) THEN <<>> ELSE ss[i] \o Flatten(ss, i + 1)

\* The listed checks of a non-nil document, in the listed order.
ListedChecks(d, l, verifyHashes) ==
    LET files == d.Markdown.Files
        items == d.Media.Items
        fileChecks(i) ==
            << Check(validateContainerPath(files[i].Path) # NoError,
                     ErrValidation, "markdown file path"),
               Check(\E j \in 1..(i - 1) : files[j].Path = files[i].Path,
                     ErrValidation, "duplicate markdown path"),
               Check(~files[i].Content.utf8,
                     ErrValidation, "markdown content is not valid UTF-8"),
               Check(WideGt(U64(files[i].Content.len), l.MaxSingleMarkdownFileSize),
                     ErrLimitExceeded, "markdown file too large") >>
        itemChecks(i) ==
            << Check(TrimSpaceIsEmpty(items[i].ID),
                     ErrValidation, "media item has empty ID"),
               Check(\E j \in 1..(i - 1) : items[j].ID = items[i].ID,
                     ErrValidation, "duplicate media ID"),
               Check(items[i].Path # <<>> /\ validateContainerPath(items[i].Path) # NoError,
                     ErrValidation, "media item path"),
               Check(WideGt(U64(items[i].Data.len), l.MaxSingleMediaSize),
                     ErrLimitExceeded, "media item too large"),
               Check(verifyHashes /\ ~items[i].SHA256.zero
                        /\ items[i].SHA256 # sha256Sum(items[i].Data),
                     ErrValidation, "media item SHA256 mismatch") >>
    IN << Check(d.Markdown.BundleVersion # 1, ErrValidation, "Markdown.BundleVersion"),
          Check(Len(files) = 0, ErrValidation, "Markdown.Files must not be empty"),
          Check(Len(files) > l.MaxMarkdownFiles, ErrLimitExceeded, "too many markdown files"),
          Check(d.Markdown.RootPath # <<>>
                   /\ validateContainerPath(d.Markdown.RootPath) # NoError,
                ErrValidation, "Markdown.RootPath") >>
       \o Flatten([i \in 1..Len(files) |-> fileChecks(i)], 1)
       \o << Check(d.Media.BundleVersion # 1, ErrValidation, "Media.BundleVersion"),
             Check(Len(items) > l.MaxMediaItems, ErrLimitExceeded, "too many media items") >>
       \o Flatten([i \in 1..Len(items) |-> itemChecks(i)], 1)

\* The first listed check the document breaks, if any.
FirstListedFailure(d, l, verifyHashes) ==
    IF d.nil THEN VErr(ErrValidation, "document is nil")
    ELSE LET c == ListedChecks(d, l, verifyHashes)
             failing == {i \in 1..Len(c) : c[i].fails}
         IN IF failing = {} THEN VErr(NoError, "")
            ELSE LET k == CHOOSE i \in failing : \A j \in failing : i <= j
                 IN VErr(c[k].kind, c[k].msg)

\* C15: validateDocument returns the error of the first failing check in the
\* listed order (nil document, Markdown version, no files, file count, root
\* path, per file path / duplicate / UTF-8 / size, Media version, item count,
\* per item blank ID / duplicate ID / path / size / hash), counts and sizes
\* as LimitExceeded and everything else as ValidationFailed; Encode returns
\* that error.
C15_FirstFailingCheck ==
    epc # "begin" =>
        LET e == validateDocumentErr(doc, enc.limits, wopts.verifyHashes)
            c == FirstListedFailure(doc, enc.limits, wopts.verifyHashes)
        IN /\ e = c
           /\ e.kind \in {NoError, ErrValidation, ErrLimitExceeded}
           /\ (epc # "validate" /\ c.kind # NoError) => eerr = c.kind
           /\ (epc = "done" /\ c.kind = NoError) => eerr = NoError

\* C15, the case: the validator has rejected a document that breaks several
\* rules at once, a file that is both not UTF-8 and too large beside a Media
\* bundle of the wrong version.
C15_Witness ==
    /\ epc = "done" /\ ~doc.nil
    /\ eerr = ErrValidation
    /\ validateDocumentErr(doc, enc.limits, wopts.verifyHashes).msg
          = "markdown content is not valid UTF-8"
    /\ Len(doc.Markdown.Files) = 2
    /\ WideGt(U64(doc.Markdown.Files[2].Content.len), enc.limits.MaxSingleMarkdownFileSize)
    /\ doc.Media.BundleVersion # VersionV1

\* Some item of d carries a non-zero SHA256 that is not the digest of its Data.
HasWrongHash(d) ==
    /\ ~d.nil
    /\ \E i \in 1..Len(d.Media.Items) :
         LET it == d.Media.Items[i] IN ~it.SHA256.zero /\ it.SHA256 # sha256Sum(it.Data)

\* Every item of d carries the zero SHA256.
AllHashesZero(d) ==
    ~d.nil /\ \A i \in 1..Len(d.Media.Items) : d.Media.Items[i].SHA256.zero

\* C16: for a document that is valid but for an item whose non-zero SHA256
\* differs from the digest of its Data, Encode with write-time verification
\* fails with ValidationFailed; the file Encode writes for it with
\* verification off fails Decode under default options with ValidationFailed
\* and is decoded to that document with WithVerifyHashes(false).  A document
\* whose digests are all zero is never rejected for a hash.
C16_HashIntegrity ==
    /\ (epc = "done" /\ HasWrongHash(doc) /\ wopts.verifyHashes
          /\ validateDocument(doc, enc.limits, FALSE) = NoError)
         => eerr = ErrValidation
    /\ (dpc = "done" /\ HasWrongHash(doc) /\ eerr = NoError /\ w.kind = "buffer"
          /\ tampers = {} /\ ropts.limits = defaultLimits
          /\ ~ExceedsWriteLimits(doc, wopts))
         => IF ropts.verifyHashes
            THEN derr = ErrValidation /\ dres = NilDoc
            ELSE derr = NoError /\ dres = doc
    /\ (epc # "begin" /\ AllHashesZero(doc))
         => /\ validateDocumentErr(doc, enc.limits, wopts.verifyHashes)
                 = validateDocumentErr(doc, enc.limits, FALSE)
            /\ validateDocumentErr(doc, enc.limits, TRUE).msg # "media item SHA256 mismatch"

\* C16, the case: a file holding an item with a wrong digest, written with
\* auto-population and verification off, has been decoded under default
\* options.
C16_Witness ==
    /\ dpc = "done" /\ HasWrongHash(doc) /\ tampers = {}
    /\ ~wopts.autoPopulate /\ ~wopts.verifyHashes /\ eerr = NoError
    /\ ropts = DefaultReadOptions
    /\ derr = ErrValidation

\* C17: of the caller's Document, Encode changes only the MediaItem.SHA256
\* entries that were all-zero, each to the digest of that item's Data, and
\* only when auto-population is on; non-zero digests and every other field
\* keep the values the caller passed, whether Encode succeeds or fails.
C17_EncodeFrame ==
    IF doc0.nil \/ ~wopts.autoPopulate \/ epc = "begin"
    THEN doc = doc0
    ELSE /\ ~doc.nil
         /\ doc.Metadata = doc0.Metadata
         /\ doc.Markdown = doc0.Markdown
         /\ doc.Media.BundleVersion = doc0.Media.BundleVersion
         /\ Len(doc.Media.Items) = Len(doc0.Media.Items)
         /\ \A i \in 1..Len(doc0.Media.Items) :
              LET old == doc0.Media.Items[i]
                  new == doc.Media.Items[i]
              IN /\ [new EXCEPT !.SHA256 = old.SHA256] = old
                 /\ new.SHA256 = IF old.SHA256.zero THEN sha256Sum(old.Data)
                                  ELSE old.SHA256

\* C17, the case: Encode under default options has returned for a document
\* with an all-zero digest, and the caller's document now differs from the
\* one passed.
C17_Witness ==
    /\ epc = "done" /\ wopts = DefaultWriteOptions(CompZSTD)
    /\ ~doc0.nil /\ Len(doc0.Media.Items) = 1
    /\ doc0.Media.Items[1].SHA256.zero
    /\ doc # doc0

\* No Write call has been made on the writer and it holds no byte.
WriterUntouched == w.calls = <<>> /\ w.buf = <<>> /\ w \in Writers

\* C18: if Encode fails for a reason other than an error returned by the
\* writer (nil document, validation failure, metadata that cannot be
\* marshalled or is above MaxMetadataLen, unknown compression id for either
\* section), no byte has been written and no Write call made; nothing is
\* ever written for a document that fails validation, and nothing before
\* both payloads are ready.
C18_NoBytesBeforeFailure ==
    /\ (epc = "done" /\ eerr \notin {NoError, ioErrClosedPipe}) => WriterUntouched
    /\ (epc # "begin" /\ validateDocument(doc, enc.limits, wopts.verifyHashes) # NoError)
         => WriterUntouched
    /\ epc \in {"begin", "validate", "serialize", "fixedHeader"} => WriterUntouched

\* C18, the case: Encode has failed on an unknown Media compression id, its
\* last check before the first write, with a writer that would have taken
\* the fixed header.
C18_Witness ==
    /\ epc = "done" /\ eerr = ErrInvalidPayload
    /\ wopts.mediaCompression = 9
    /\ w = ErrAfterWriter(100)

\* The lengths of the writes of a complete Encode, in the documented order:
\* the fixed header (32 bytes), the metadata bytes if there are any, the
\* Markdown section header and payload, the Media section header and payload.
WritesInOrder ==
    <<32>> \o (IF enc.metadataBytes.len > 0 THEN <<enc.metadataBytes.len>> ELSE <<>>)
    \o <<16, payloadLen(enc.mdPayload), 16, payloadLen(enc.mediaPayload)>>

\* C19: the Write calls Encode has made are a prefix of the documented
\* order; only the last call made can have failed (no write follows a failed
\* one, none is retried), and then Encode has returned exactly that error;
\* an Encode that returns nil has made every write, and a writer that takes
\* whole writes holds exactly the bytes of the successful ones.
C19_WriteOrderAndAbort ==
    LET calls == w.calls
        n == Len(calls)
    IN /\ n <= Len(WritesInOrder)
       /\ \A i \in 1..n : calls[i].n = WritesInOrder[i]
       /\ \A i \in 1..(n - 1) : calls[i].err = NoError
       /\ (n > 0 /\ calls[n].err # NoError) => (epc = "done" /\ eerr = calls[n].err)
       /\ (epc = "done" /\ eerr = NoError) => n = Len(WritesInOrder)
       /\ (epc = "done" /\ n > 0 /\ eerr # NoError) => eerr = calls[n].err
       /\ w.kind \in {"buffer", "errAfter"} =>
             /\ Len(w.buf) = Cardinality({i \in 1..n : calls[i].err = NoError})
             /\ \A i \in 1..Len(w.buf) : SegLen(w.buf[i]) = WritesInOrder[i]
       /\ (epc = "done" /\ n = Len(WritesInOrder) /\ w.kind = "buffer") =>
             /\ w.buf[1].t = "bytes"
             /\ w.buf[n - 3].t = "bytes" /\ w.buf[n - 2] = PayloadSeg(enc.mdPayload)
             /\ w.buf[n - 1].t = "bytes" /\ w.buf[n] = PayloadSeg(enc.mediaPayload)
             /\ n = 6 => w.buf[2] = JSONSeg(enc.metadataBytes)

\* C19, the case: the write of the Media section header has failed after
\* four successful writes, and Encode has returned the writer's error.
C19_Witness ==
    /\ epc = "done" /\ eerr = ioErrClosedPipe
    /\ Len(w.calls) = 5 /\ Len(WritesInOrder) = 6
    /\ w.calls[5].err = ioErrClosedPipe /\ w.calls[5].n = 16
    /\ Len(w.buf) = 4

\* C20: Decode returns either a non-nil Document with a nil error, and that
\* Document passes validateDocument under the effective read limits and the
\* hash-verification flag, or a nil Document with a non-nil error; until it
\* returns nothing has been handed to the caller.
C20_ResultDichotomy ==
    IF dpc = "done"
    THEN \/ /\ derr = NoError
            /\ ~dres.nil
            /\ validateDocument(dres, withDefaults(ropts.limits), ropts.verifyHashes)
                  = NoError
         \/ /\ derr \notin {NoError, "pending"}
            /\ dres = NilDoc
    ELSE dres = NilDoc /\ derr = "pending"

\* C20, the case: Decode has read and decoded both sections and then failed
\* in validation; the assembled bundles were not returned.
C20_Witness ==
    /\ dpc = "done" /\ derr = ErrValidation /\ dres = NilDoc
    /\ Len(dec.markdown.Files) > 0 /\ Len(dec.media.Items) > 0

\* Decode has read a Media section header that passed its checks and
\* declares a stored length of 0, and is past the Media section.
EmptyMediaDeclared ==
    /\ dpc \in {"validate", "done"}
    /\ EventsOf({"read"}, "mediaHeader") # {}
    /\ checkSectionHeader(dec.mediaSec, SectionMedia, dec.limits.MaxMediaSectionLen)
         = NoError
    /\ IsZero(dec.mediaSec.PayloadLen)

\* C21: when the Media section header passes validation and declares
\* PayloadLen 0, Decode allocates and reads nothing for the payload, calls
\* neither decompressPayload nor a codec nor the gob decoder on it, and uses
\* MediaBundle{BundleVersion: 1, Items: empty}, for every compression id.
C21_EmptyMediaFastPath ==
    EmptyMediaDeclared =>
        /\ EventsOf({"read", "alloc", "decompress", "codec", "gob"}, "media") = {}
        /\ LastEvent.what = "mediaHeader"
        /\ dec.media = [BundleVersion |-> 1, Items |-> <<>>]
        /\ (dpc = "done" /\ derr = NoError) => dres.Media = dec.media

\* C21, the case: a file written with Zstandard holding one Media item had
\* its Media PayloadLen set to 0 and was decoded to a document without items.
C21_Witness ==
    /\ EmptyMediaDeclared /\ dpc = "done" /\ derr = NoError
    /\ compression(dec.mediaSec) = CompZSTD /\ hasUncompressedLen(dec.mediaSec)
    /\ Len(doc0.Media.Items) = 1
    /\ dres.Media.Items = <<>>

\* p is in the form path.Clean leaves a path in: "." or "/" alone, or
\* slash-separated elements none of which is empty or ".", with ".."
\* elements only at the very front of a relative path.
IsNormalized(p) ==
    \/ p \in {<<".">>, <<"/">>}
    \/ /\ p # <<>>
       /\ LET rooted == p[1] = "/"
              elems  == IF rooted THEN Tail(SplitSlash(p, <<>>)) ELSE SplitSlash(p, <<>>)
          IN \A i \in 1..Len(elems) :
                /\ elems[i] \notin {<<>>, <<".">>}
                /\ elems[i] = <<".", ".">> =>
                      ~rooted /\ \A j \in 1..i : elems[j] = <<".", ".">>

\* The conditions under which a container path is acceptable.
AcceptablePath(p) ==
    /\ \E i \in 1..Len(p) : p[i] \notin {" ", "\t", "\n", "\r"}
    /\ p[1] # "/"
    /\ \A i \in 1..Len(p) : p[i] # "\\"
    /\ IsNormalized(p)
    /\ p # <<".">> /\ p # <<".", ".">>
    /\ ~(Len(p) >= 3 /\ SubSeq(p, 1, 3) = <<".", ".", "/">>)

\* The path of the single Markdown file of the document given to Encode.
PathUnderTest == doc0.Markdown.Files[1].Path

\* C22: validateContainerPath accepts a path exactly when it is non-blank
\* after trimming, does not start with "/", holds no backslash, equals its
\* cleaned form, is not "." or "..", and does not begin with "../"; it
\* accepts "docs/readme.md" and rejects "", "/abs", "a\b", "a//b", "a/./b",
\* "a/../b", ".", "..", "../x" and "a/".
C22_ContainerPathRule ==
    epc # "begin" =>
        LET p == PathUnderTest IN
        /\ pathClean(p) = p <=> IsNormalized(p)
        /\ validateContainerPath(p) = NoError <=> AcceptablePath(p)
        /\ p \in ListedAccepted => validateContainerPath(p) = NoError
        /\ p \in ListedRejected => validateContainerPath(p) # NoError
        /\ epc = "done" =>
              eerr = IF AcceptablePath(p) THEN NoError ELSE ErrValidation

\* C22, the case: Encode has rejected the document whose file is named
\* "a/../b", a relative path without backslash that is not in cleaned form.
C22_Witness ==
    /\ epc = "done" /\ eerr = ErrValidation
    /\ PathUnderTest = <<"a", "/", ".", ".", "/", "b">>
    /\ pathClean(PathUnderTest) = <<"b">>

\* Decode under default options has returned for a proper prefix of a file
\* that Encode wrote in full under default options.
PrefixDecoded ==
    /\ tampers = {<<"file", "truncated">>}
    /\ ropts = DefaultReadOptions
    /\ dpc = "done"

\* C23: Decode of every proper prefix of a stream produced by a successful
\* Encode fails with io.EOF or io.ErrUnexpectedEOF as it is, never with a
\* structural error kind, and the failed read is the last thing Decode does.
C23_TruncationIsIOError ==
    PrefixDecoded =>
        /\ derr \in {ioEOF, ioErrUnexpectedEOF}
        /\ dres = NilDoc
        /\ LastEvent.ev = "read" /\ rpos = Len(stream) + 1

\* C23, the case that behaves as stated: sampleDoc() with media, written with
\* Zstandard and cut inside its Media payload, fails with ErrUnexpectedEOF at
\* the read of that payload.
C23_Witness ==
    /\ PrefixDecoded /\ doc0 \in SampleDocs
    /\ wopts = DefaultWriteOptions(CompZSTD)
    /\ derr = ioErrUnexpectedEOF /\ dres = NilDoc
    /\ LastEvent = Event("read", "media", dec.mediaSec.PayloadLen)
    /\ Len(stream) = Len(w.buf) /\ stream[Len(stream)].t = "part"

\* Encode and Decode have returned for both documents of a pair that
\* differs only in MediaRefs.
BothRefsRun ==
    /\ first.ran = "refs" /\ epc = "done" /\ dpc = "done"
    /\ \E refs \in RefLists : doc0 = WithMediaRefs(first.doc0, refs)

\* The number of entries of MediaRefs in the document d.
RefCount(d) ==
    IF d.nil THEN 0
    ELSE SumLen([i \in 1..Len(d.Markdown.Files) |-> Len(d.Markdown.Files[i].MediaRefs)], 1)

IsPrefixOf(b, c) == Len(b) <= Len(c) /\ b = SubSeq(c, 1, Len(b))

FixedHeaderChecked ==
    /\ dpc \notin {"none", "idle", "fixedHeader"}
    /\ Len(stream) >= 1 /\ stream[1].t = "bytes" /\ Len(stream[1].b) = fixedHeaderSizeV1
    /\ dec.h = parseFixedHeader(stream[1].b)

\* Decode returned at the checks of the fixed header.
FailedAtFixedHeader == dpc = "done" /\ LastEvent.what = "fixedHeader"

\* C26: Decode makes the fixed-header checks in the order magic, declared
\* header size, version, reserved fields, metadata-length ceiling, and the
\* first failing check alone determines the error kind: a wrong magic gives
\* InvalidMagic whatever the other fields hold; a correct magic with a size
\* other than 32 gives InvalidHeader even when the version is not 1;
\* LimitExceeded is returned only when the four earlier checks pass.
C26_FixedHeaderCheckOrder ==
    FixedHeaderChecked =>
        LET h == dec.h
            magicOK    == h.Magic = <<77, 68, 79, 67, 88, 13, 10, 26>>
            sizeOK     == h.FixedHdrSize = U32(32)
            versionOK  == h.Version = 1
            reservedOK == IsZero(h.Reserved0) /\ IsZero(h.Reserved1)
            lengthOK   == ~WideGt(h.MetadataLength, dec.limits.MaxMetadataLen)
        IN /\ ~magicOK => (FailedAtFixedHeader /\ derr = ErrInvalidMagic)
           /\ (magicOK /\ ~sizeOK) => (FailedAtFixedHeader /\ derr = ErrInvalidHeader)
           /\ (magicOK /\ sizeOK /\ ~versionOK)
                 => (FailedAtFixedHeader /\ derr = ErrUnsupportedVersion)
           /\ (magicOK /\ sizeOK /\ versionOK /\ ~reservedOK)
                 => (FailedAtFixedHeader /\ derr = ErrInvalidHeader)
           /\ (magicOK /\ sizeOK /\ versionOK /\ reservedOK /\ ~lengthOK)
                 => (FailedAtFixedHeader /\ derr = ErrLimitExceeded)
           /\ (FailedAtFixedHeader /\ derr = ErrLimitExceeded)
                 => (magicOK /\ sizeOK /\ versionOK /\ reservedOK)
           /\ (magicOK /\ sizeOK /\ versionOK /\ reservedOK /\ lengthOK)
                 => ~FailedAtFixedHeader

\* C26, the case: a header with the correct magic, a declared size other
\* than 32 and a version other than 1 was refused with InvalidHeader.
C26_Witness ==
    /\ FixedHeaderChecked /\ FailedAtFixedHeader
    /\ dec.h.Magic = Magic
    /\ dec.h.FixedHdrSize # U32(32) /\ dec.h.Version # 1
    /\ derr = ErrInvalidHeader

\* The number of bytes passed to the writer's Write calls, and the number
\* of bytes the writer has taken.
BytesGiven == SumLen([i \in 1..Len(w.calls) |-> w.calls[i].n], 1)
BytesAccepted == StreamLen(w.buf, 1)

\* C27: if Encode returns nil, the bytes the writer accepted are the
\* complete container: whenever a Write accepts fewer bytes than it was
\* given, Encode returns a non-nil error.
C27_NilMeansComplete ==
    (epc = "done" /\ eerr = NoError) => BytesAccepted = BytesGiven

\* C27, the case that behaves as stated: failingWriter took part of a
\* block without error, the next Write failed, and Encode returned that error.
C27_Witness ==
    /\ epc = "done" /\ w.kind = "failing"
    /\ BytesAccepted < BytesGiven
    /\ Len(w.calls) >= 2 /\ w.calls[Len(w.calls) - 1].err = NoError
    /\ w.buf[Len(w.buf)].t = "part"
    /\ eerr = ioErrClosedPipe

\* Encode, called with auto-population on a non-nil document, has returned
\* an error.
FailedWithAutoPopulate ==
    epc = "done" /\ eerr # NoError /\ wopts.autoPopulate /\ ~doc0.nil

\* C28: when Encode runs with auto-population and returns an error, the
\* caller's Document is not restored: every SHA256 that was all-zero holds
\* the digest computed from the item's Data.
C28_DigestsKeptOnFailure ==
    FailedWithAutoPopulate =>
        /\ Len(doc.Media.Items) = Len(doc0.Media.Items)
        /\ \A i \in 1..Len(doc0.Media.Items) :
             doc0.Media.Items[i].SHA256.zero =>
                /\ ~doc.Media.Items[i].SHA256.zero
                /\ doc.Media.Items[i].SHA256 = sha256Sum(doc0.Media.Items[i].Data)
        /\ AllHashesZero(doc0) /\ Len(doc0.Media.Items) > 0 => doc # doc0

\* C28, the case: Encode failed on metadata above MaxMetadataLen, after
\* validation had passed, and the item that came with an all-zero digest
\* now carries one.
C28_Witness ==
    /\ FailedWithAutoPopulate /\ eerr = ErrLimitExceeded
    /\ doc0.Metadata = HugeMetadata
    /\ Len(doc0.Media.Items) = 1 /\ doc0.Media.Items[1].SHA256.zero
    /\ doc.Media.Items[1].SHA256 = sha256Sum(Png)
    /\ w.calls = <<>>

\* Decode has returned for a file that decoded before and now has bytes
\* after its Media payload.
TrailingDecoded ==
    /\ first.ran = "decode" /\ tampers = {<<"file", "appended">>}
    /\ dpc = "done"

\* C29: Decode consumes the header, the metadata and the two sections and
\* never reads past the Media payload: bytes appended to a file that
\* decodes successfully leave the Document the same and give no error.
C29_TrailingBytesIgnored ==
    /\ TrailingDecoded =>
          /\ derr = first.derr /\ dres = first.dres
          /\ first.derr = NoError =>
                /\ derr = NoError /\ ~dres.nil
                /\ rpos = Len(first.stream) + 1
                /\ rpos = Len(stream)
    /\ (dpc = "done" /\ derr = NoError) =>
          LastEvent.what \in {"media", "mediaHeader"}

\* C29, the case: the 8 bytes of the magic were appended to sampleDoc()
\* written with Zstandard, and Decode returned the document it returned
\* for the file itself.
C29_Witness ==
    /\ TrailingDecoded
    /\ stream = Append(first.stream, BytesSeg(Magic))
    /\ wopts = DefaultWriteOptions(CompZSTD)
    /\ derr = NoError /\ dres = first.dres /\ ~dres.nil
    /\ Len(dres.Media.Items) = 1

\* sh with the unknown bits of its SectionFlags cleared.
KnownBits(sh) == [sh EXCEPT !.SectionFlags = @ % 32]

\* Decode has returned for a file that was decoded before and now has
\* unknown flag bits set.
UnknownFlagsDecoded ==
    /\ first.ran = "decode" /\ dpc = "done"
    /\ tampers # {} /\ \A t \in tampers : t[2] = "unknownFlags"

\* C30: unknown flag bits are ignored: validateSectionHeader depends only
\* on the reserved field, the section type, the low 4 bits of SectionFlags
\* and bit 0x0010; Decode depends only on bit 0x0001 of HeaderFlags; two
\* files that differ only in other flag bits decode to the same result.
C30_UnknownFlagsIgnored ==
    /\ dpc \notin {"none", "idle"} =>
          \A sh \in {dec.mdSec, dec.mediaSec}, t \in {SectionMarkdown, SectionMedia} :
             /\ validateSectionHeader(sh, t) = validateSectionHeader(KnownBits(sh), t)
             /\ compression(sh) = sh.SectionFlags % 16
             /\ hasUncompressedLen(sh) = ((sh.SectionFlags \div 16) % 2 = 1)
    /\ UnknownFlagsDecoded =>
          /\ derr = first.derr /\ dres = first.dres
          /\ dpc = "done" /\ first.derr = NoError => log # <<>>

\* C30, the case: every unknown bit of HeaderFlags and of both SectionFlags
\* was set in sampleDoc() written with Zstandard, and Decode returned the
\* document it returned for the file itself.
C30_Witness ==
    /\ UnknownFlagsDecoded /\ Cardinality(tampers) = 3
    /\ dec.h.HeaderFlags \in {65534, 65535}
    /\ dec.mdSec.SectionFlags = 65504 + 16 + CompZSTD
    /\ dec.mediaSec.SectionFlags = 65504 + 16 + CompZSTD
    /\ derr = NoError /\ dres = first.dres /\ ~dres.nil
====
